---- MODULE Spec2Model ----
(***************************************************************************)
(* Model of paranames/util/script.py: the Alignment value, the             *)
(* NameProcessor family (ParenthesisRemover, PermuteFirstComma,            *)
(* PermuteLowestDistance and the composites), TransliteratedName, the      *)
(* two external oracles (UniversalRomanizer, FastAligner), Corpus with its *)
(* CorpusStatistics, UnicodeAnalyzer, and the anomaly taggers with the     *)
(* AggregatedTagger.                                                       *)
(*                                                                         *)
(* A Python str is a sequence of one-character strings, so that split,     *)
(* strip, join, int() and the regular expression are computed on the       *)
(* characters.  Python's None is the value None below.                     *)
(***************************************************************************)
EXTENDS Integers, Sequences, FiniteSets, TLC

VARIABLES
    \* Alignment under construction
    al_tokens,            \* the tokens the pair string was written from
    alignment_str,        \* Alignment.alignment_str
    n_cross_alignments,   \* Alignment.n_cross_alignments
    al_pc,                \* "new" | "done" | "ValueError"
    \* a NameProcessor.process call on one string
    p_in, p_out, p_fn,
    \* a batch of TransliteratedNames going through NameProcessors
    names,                \* the list the pipeline holds (last return value)
    passed,               \* the objects handed to the last call, after it
    pre,                  \* the objects handed to the last call, before it
    last,                 \* the last call: processor, mode, romanizer output
    err,                  \* "none" or the exception the last call raised
    calls,                \* number of processor calls made on the batch
    \* one call of UniversalRomanizer or FastAligner
    o_fn,                 \* the callable: "UniversalRomanizer" | "FastAligner"
    o_in,                 \* its argument: strings, or TransliteratedNames
    o_installed,          \* whether the executable was found
    o_lines,              \* the lines the external process wrote
    o_stdout,             \* completed_pid.stdout
    o_out,                \* the returned list; for FastAligner the Names after
    o_pc,                 \* "new" | "returned" | the exception raised
    o_msg,                \* the message of the exception
    o_runs,               \* number of subprocess.run calls made
    \* a Corpus under construction and in use
    c_cfg,                \* the configuration attributes of the Corpus
    c_input,              \* the list of Names passed to Corpus(...)
    c_names,              \* Corpus.names
    c_pc,                 \* position in __attrs_post_init__, or the exception
    c_log,                \* the stages run so far, each with the Names it saw
    c_prototype,          \* Corpus.prototype
    c_most_common_unicode_block,
    c_stats,              \* Corpus.stats
    c_oracle,             \* what the external processes did during the build
    \* one call of UnicodeAnalyzer.most_common_unicode_block / _icu_script
    u_analyzer,           \* the settings of the UnicodeAnalyzer
    u_word,               \* the argument
    u_icu_mode,           \* whether the ICU script granularity was asked for
    u_out,                \* the returned label
    u_pc,                 \* "new" | "returned" | the exception raised
    \* the Names of a Corpus going through the anomaly taggers
    t_names,              \* Corpus.names
    t_pre,                \* Corpus.names before they were last replaced
    t_tagger,             \* the tagger called last
    t_preds,              \* the votes of the last AggregatedTagger call
    t_out,                \* the list the last tagger call returned
    t_split,              \* the result of the last split_names call
    t_pc                  \* "loaded" | "tagged" | "replaced" | "split" | exception

alignVars == <<al_tokens, alignment_str, n_cross_alignments, al_pc>>
procVars  == <<p_in, p_out, p_fn>>
nameVars  == <<names, passed, pre, last, err, calls>>
oracleVars == <<o_fn, o_in, o_installed, o_lines, o_stdout, o_out, o_pc,
                o_msg, o_runs>>
corpusVars == <<c_cfg, c_input, c_names, c_pc, c_log, c_prototype,
                c_most_common_unicode_block, c_stats, c_oracle>>
scriptVars == <<u_analyzer, u_word, u_icu_mode, u_out, u_pc>>
tagVars == <<t_names, t_pre, t_tagger, t_preds, t_out, t_split, t_pc>>
vars == <<al_tokens, alignment_str, n_cross_alignments, al_pc,
          p_in, p_out, p_fn, names, passed, pre, last, err, calls,
          o_fn, o_in, o_installed, o_lines, o_stdout, o_out, o_pc, o_msg,
          o_runs, c_cfg, c_input, c_names, c_pc, c_log, c_prototype,
          c_most_common_unicode_block, c_stats, c_oracle,
          u_analyzer, u_word, u_icu_mode, u_out, u_pc,
          t_names, t_pre, t_tagger, t_preds, t_out, t_split, t_pc>>

\* ---------------------------------------------------------------- bounds

\* largest token index written into an alignment pair string
MaxIdx == 2
\* largest number of space-separated tokens of an alignment pair string
MaxPairs == 3

\* ------------------------------------------------------- Python str model

None == <<"None">>

Digits == <<"0", "1", "2", "3", "4", "5", "6", "7", "8", "9">>

IsDigit(c) == \E d \in 1..10 : Digits[d] = c

DigitVal(c) == (CHOOSE d \in 1..10 : Digits[d] = c) - 1

Min2(a, b) == IF a <= b THEN a ELSE b

Max2(a, b) == IF a >= b THEN a ELSE b

\* s[a..b], empty when a > b
Slice(s, a, b) == IF a > b THEN <<>> ELSE SubSeq(s, a, b)

\* str(n) for n >= 0
RECURSIVE IntToStr(_)
IntToStr(n) ==
    IF n < 10 THEN <<Digits[n + 1]>>
    ELSE IntToStr(n \div 10) \o <<Digits[(n % 10) + 1]>>

\* int(s) succeeds on a non-empty run of decimal digits
IntOk(s) == Len(s) > 0 /\ \A k \in 1..Len(s) : IsDigit(s[k])

RECURSIVE StrToInt(_)
StrToInt(s) ==
    IF Len(s) = 0 THEN 0
    ELSE 10 * StrToInt(Slice(s, 1, Len(s) - 1)) + DigitVal(s[Len(s)])

\* str.strip(): leading and trailing whitespace removed
RECURSIVE LStripChar(_, _)
LStripChar(s, c) ==
    IF Len(s) > 0 /\ s[1] = c THEN LStripChar(Tail(s), c) ELSE s

RECURSIVE RStripChar(_, _)
RStripChar(s, c) ==
    IF Len(s) > 0 /\ s[Len(s)] = c
    THEN RStripChar(Slice(s, 1, Len(s) - 1), c) ELSE s

\* str.strip(c) for a one-character argument
StripChar(s, c) == RStripChar(LStripChar(s, c), c)

Strip(s) == StripChar(s, " ")

\* str.split(sep) for a one-character separator: empty pieces are kept
RECURSIVE SplitOn(_, _)
SplitOn(s, c) ==
    IF \A k \in 1..Len(s) : s[k] # c THEN <<s>>
    ELSE LET k == CHOOSE i \in 1..Len(s) :
                      s[i] = c /\ \A m \in 1..(i - 1) : s[m] # c
         IN  <<Slice(s, 1, k - 1)>> \o SplitOn(Slice(s, k + 1, Len(s)), c)

\* sep.join(parts)
RECURSIVE Join(_, _)
Join(parts, sep) ==
    IF Len(parts) = 0 THEN <<>>
    ELSE IF Len(parts) = 1 THEN parts[1]
    ELSE parts[1] \o sep \o Join(Tail(parts), sep)

\* ----------------------------------------------------------- Alignment

\* [int(x) for x in at.split("-")] raises ValueError when a part is no integer
TokenParses(at) ==
    LET parts == SplitOn(at, "-")
    IN  \A k \in 1..Len(parts) : IntOk(parts[k])

\* tuple([int(x) for x in at.split("-")])
ParseToken(at) ==
    LET parts == SplitOn(at, "-")
    IN  [k \in 1..Len(parts) |-> StrToInt(parts[k])]

\* sorted(..., key=lambda t: t[0]): stable insertion by the first component
RECURSIVE InsertByFirst(_, _)
InsertByFirst(sorted, t) ==
    IF Len(sorted) = 0 THEN <<t>>
    ELSE IF sorted[Len(sorted)][1] <= t[1] THEN Append(sorted, t)
    ELSE Append(InsertByFirst(Slice(sorted, 1, Len(sorted) - 1), t),
                sorted[Len(sorted)])

RECURSIVE SortedByFirst(_)
SortedByFirst(ts) ==
    IF Len(ts) = 0 THEN <<>>
    ELSE InsertByFirst(SortedByFirst(Slice(ts, 1, Len(ts) - 1)), ts[Len(ts)])

\* one turn of the loop over alignment_tokens; acc = [n, max]
CrossStep_Leq(acc, tok) ==
    IF Len(tok) # 2 THEN acc
    ELSE [n   |-> IF tok[2] <= acc.max THEN acc.n + 1 ELSE acc.n,
          max |-> Max2(acc.max, tok[2])]

CrossStep(acc, tok) ==
    IF Len(tok) # 2 THEN acc    \* "source, target = tok" fails: except/continue
    ELSE [n   |-> IF tok[2] < acc.max THEN acc.n + 1 ELSE acc.n,
          max |-> Max2(acc.max, tok[2])]

RECURSIVE CrossLoop(_, _)
CrossLoop(acc, toks) ==
    IF Len(toks) = 0 THEN acc
    ELSE CrossLoop(CrossStep(acc, toks[1]), Tail(toks))

\* the tokens the list comprehension of compute_cross_alignments walks
AlignmentTokenStrs(str) == SplitOn(str, " ")

\* the comprehension raises ValueError
ComputeRaises(str) ==
    LET ats == AlignmentTokenStrs(str)
    IN  \E k \in 1..Len(ats) : ~TokenParses(ats[k])

compute_cross_alignments(str) ==
    LET ats    == AlignmentTokenStrs(str)
        tuples == [k \in 1..Len(ats) |-> ParseToken(ats[k])]
    IN  CrossLoop([n |-> 0, max |-> 0], SortedByFirst(tuples)).n

\* ---- the Alignment state machine

WellFormedTokens ==
    {[kind |-> "pair", i |-> i, j |-> j, txt |-> <<>>] : i, j \in 0..MaxIdx}

\* a non-integer index, an empty token (repeated spaces), a token of one
\* part and a token of three parts
MalformedTexts ==
    {<<"x", "-", "1">>, <<>>, <<"1">>, <<"0", "-", "1", "-", "2">>}

MalformedTokens ==
    {[kind |-> "bad", i |-> 0, j |-> 0, txt |-> t] : t \in MalformedTexts}

AlignTokens == WellFormedTokens \cup MalformedTokens

RenderToken(t) ==
    IF t.kind = "pair" THEN IntToStr(t.i) \o <<"-">> \o IntToStr(t.j)
    ELSE t.txt

RenderTokens(ts) == Join([k \in 1..Len(ts) |-> RenderToken(ts[k])], <<" ">>)

AlignTokenSeqs == UNION {[1..n -> AlignTokens] : n \in 0..MaxPairs}

AlignIdle ==
    /\ al_tokens = <<>>
    /\ alignment_str = <<>>
    /\ n_cross_alignments = 0
    /\ al_pc = "idle"

ProcIdle == p_in = <<>> /\ p_out = <<>> /\ p_fn = "idle"

NamesIdle ==
    /\ names = <<>>
    /\ passed = <<>>
    /\ pre = <<>>
    /\ last = [op |-> "idle", inplace |-> FALSE, debug_mode |-> FALSE,
               romanized |-> <<>>]
    /\ err = "none"
    /\ calls = 0

OracleIdle ==
    /\ o_fn = "idle"
    /\ o_in = <<>>
    /\ o_installed = TRUE
    /\ o_lines = <<>>
    /\ o_stdout = <<>>
    /\ o_out = <<>>
    /\ o_pc = "idle"
    /\ o_msg = ""
    /\ o_runs = 0

CorpusIdle ==
    /\ c_cfg = <<>>
    /\ c_input = <<>>
    /\ c_names = <<>>
    /\ c_pc = "idle"
    /\ c_log = <<>>
    /\ c_prototype = <<>>
    /\ c_most_common_unicode_block = ""
    /\ c_stats = <<>>
    /\ c_oracle = <<>>

ScriptIdle ==
    /\ u_analyzer = <<>>
    /\ u_word = <<>>
    /\ u_icu_mode = FALSE
    /\ u_out = <<>>
    /\ u_pc = "idle"

TagIdle ==
    /\ t_names = <<>>
    /\ t_pre = <<>>
    /\ t_tagger = <<>>
    /\ t_preds = <<>>
    /\ t_out = <<>>
    /\ t_split = <<>>
    /\ t_pc = "idle"

\* Alignment(alignment_str=...) before __attrs_post_init__ runs
InitAlign ==
    /\ al_tokens \in AlignTokenSeqs
    /\ alignment_str = RenderTokens(al_tokens)
    /\ n_cross_alignments = 0
    /\ al_pc = "new"
    /\ ProcIdle
    /\ NamesIdle
    /\ OracleIdle
    /\ CorpusIdle
    /\ ScriptIdle
    /\ TagIdle

\* Alignment.__attrs_post_init__
Alignment_post_init ==
    /\ al_pc = "new"
    /\ alignment_str' = Strip(alignment_str)
    /\ IF Len(Strip(alignment_str)) = 0
       THEN /\ n_cross_alignments' = n_cross_alignments
            /\ al_pc' = "done"
       ELSE IF ComputeRaises(Strip(alignment_str))
       THEN /\ n_cross_alignments' = n_cross_alignments
            /\ al_pc' = "ValueError"
       ELSE /\ n_cross_alignments' =
                   compute_cross_alignments(Strip(alignment_str))
            /\ al_pc' = "done"
    /\ UNCHANGED <<al_tokens, procVars, nameVars, oracleVars, corpusVars,
                 scriptVars, tagVars>>

NextAlign == Alignment_post_init

SpecAlign == InitAlign /\ [][NextAlign]_vars

\* ---- the inversion count as section 4.2 of the specification defines it

\* the well-formed pairs of a token list, in order
PairsOf(ts) == SelectSeq(ts, LAMBDA t : t.kind = "pair")

\* pairs ordered by i, pairs of equal i in their written order
RECURSIVE PairsByI(_, _)
PairsByI(ps, v) ==
    IF v > MaxIdx THEN <<>>
    ELSE SelectSeq(ps, LAMBDA p : p.i = v) \o PairsByI(ps, v + 1)

MaxOf(S) == CHOOSE x \in S : \A y \in S : y <= x

\* number of pairs whose j is below the largest j seen before (from 0)
Inversions(ps) ==
    Cardinality({k \in 1..Len(ps) :
        ps[k].j < MaxOf({0} \cup {ps[m].j : m \in 1..(k - 1)})})

StdCrossCount(ts) == Inversions(PairsByI(PairsOf(ts), 0))

Str_00_12_21 ==
    <<"0", "-", "0", " ", "1", "-", "2", " ", "2", "-", "1">>

\* C1: for a pair string of well-formed pairs the construction completes and
\* n_cross_alignments is the inversion count of the pairs sorted by i
\* (max_seen from 0, +1 when j < max_seen); "0-0 1-2 2-1" gives 1.
C1_CrossAlignmentCount ==
    (al_pc \in {"done", "ValueError"}
        /\ \A k \in 1..Len(al_tokens) : al_tokens[k].kind = "pair")
    => /\ al_pc = "done"
       /\ n_cross_alignments = StdCrossCount(al_tokens)
       /\ (alignment_str = Str_00_12_21 => n_cross_alignments = 1)

C1_Witness ==
    /\ al_pc = "done"
    /\ alignment_str = Str_00_12_21
    /\ n_cross_alignments = 1

\* C2: a pair string with a malformed token never raises; the malformed
\* token is skipped and the count is that of the well-formed pairs.
C2_MalformedSkipped ==
    al_pc \in {"done", "ValueError"}
    => /\ al_pc = "done"
       /\ n_cross_alignments = StdCrossCount(al_tokens)

\* ------------------------------------------------ NameProcessor.process

\* longest string drawn over ProcAlphabet for a process call
MaxStrLen == 6

\* position of the first c in s, 0 when there is none (str.find)
FirstIndexOf(s, c) ==
    IF \A k \in 1..Len(s) : s[k] # c THEN 0
    ELSE CHOOSE i \in 1..Len(s) : s[i] = c /\ \A m \in 1..(i - 1) : s[m] # c

LastIndexOf(s, c) ==
    IF \A k \in 1..Len(s) : s[k] # c THEN 0
    ELSE CHOOSE i \in 1..Len(s) :
             s[i] = c /\ \A m \in (i + 1)..Len(s) : s[m] # c

\* a lazy pattern \(.*?\) applied once: first "(" to the first ")" after it
re_parenthesis_sub_Lazy(s) ==
    LET i == FirstIndexOf(s, "(")
        r == IF i = 0 THEN <<>> ELSE Slice(s, i + 1, Len(s))
        j == IF i = 0 THEN 0 ELSE FirstIndexOf(r, ")")
    IN  IF i = 0 \/ j = 0 THEN s
        ELSE Slice(s, 1, i - 1) \o Slice(r, j + 1, Len(r))

\* re.compile(r"\(.*\)").sub("", s) on a string of one line: the match starts
\* at the first "(" that has a ")" after it and, "." being greedy, runs to
\* the last ")"; nothing after it can match again
re_parenthesis_sub(s) ==
    LET i == FirstIndexOf(s, "(")
        j == LastIndexOf(s, ")")
    IN  IF i = 0 \/ j = 0 \/ j < i THEN s
        ELSE Slice(s, 1, i - 1) \o Slice(s, j + 1, Len(s))

ParenthesisRemover_process(s) == Strip(re_parenthesis_sub(s))

PermuteFirstComma_process(name_text) ==
    LET comma_ix == FirstIndexOf(name_text, ",")
        head     == Slice(name_text, 1, comma_ix - 1)
        tail     == Slice(name_text, comma_ix + 1, Len(name_text))
    IN  IF comma_ix = 0 THEN name_text
        ELSE Strip(StripChar(tail \o <<" ">> \o head, ","))

RemoveParenthesisPermuteComma_process(name_text) ==
    StripChar(PermuteFirstComma_process(ParenthesisRemover_process(name_text)),
              ",")

\* process of the NameProcessor subclass registered under a permuter type
process(kind, s) ==
    CASE kind = "remove_parenthesis" -> ParenthesisRemover_process(s)
      [] kind = "comma" -> PermuteFirstComma_process(s)
      [] kind = "remove_parenthesis_permute_comma" ->
             RemoveParenthesisPermuteComma_process(s)

ProcessKinds ==
    {"remove_parenthesis", "comma", "remove_parenthesis_permute_comma"}

\* ---- process applied to one string

ProcAlphabet == {"a", " ", "(", ")", ","}

Str_JaneDoeSinger == <<"J", "a", "n", "e", " ", "D", "o", "e", " ", "(", "s", "i", "n", "g", "e", "r", ")">>

Str_JaneDoe == <<"J", "a", "n", "e", " ", "D", "o", "e">>

Str_DoeCommaJane == <<"D", "o", "e", ",", " ", "J", "a", "n", "e">>

ProcStrings ==
    UNION {[1..n -> ProcAlphabet] : n \in 0..MaxStrLen}
        \cup {Str_JaneDoeSinger, Str_JaneDoe, Str_DoeCommaJane}

InitProc ==
    /\ p_in \in ProcStrings
    /\ p_out = <<>>
    /\ p_fn = "new"
    /\ AlignIdle
    /\ NamesIdle
    /\ OracleIdle
    /\ CorpusIdle
    /\ ScriptIdle
    /\ TagIdle

ParenthesisRemover_process_call ==
    /\ p_fn = "new"
    /\ p_out' = ParenthesisRemover_process(p_in)
    /\ p_fn' = "remove_parenthesis"
    /\ UNCHANGED <<p_in, alignVars, nameVars, oracleVars, corpusVars,
                 scriptVars, tagVars>>

PermuteFirstComma_process_call ==
    /\ p_fn = "new"
    /\ p_out' = PermuteFirstComma_process(p_in)
    /\ p_fn' = "comma"
    /\ UNCHANGED <<p_in, alignVars, nameVars, oracleVars, corpusVars,
                 scriptVars, tagVars>>

RemoveParenthesisPermuteComma_process_call ==
    /\ p_fn = "new"
    /\ p_out' = RemoveParenthesisPermuteComma_process(p_in)
    /\ p_fn' = "remove_parenthesis_permute_comma"
    /\ UNCHANGED <<p_in, alignVars, nameVars, oracleVars, corpusVars,
                 scriptVars, tagVars>>

NextProc ==
    \/ ParenthesisRemover_process_call
    \/ PermuteFirstComma_process_call
    \/ RemoveParenthesisPermuteComma_process_call

SpecProc == InitProc /\ [][NextProc]_vars

\* ---- ParenthesisRemover.process, character by character

\* position k lies in a parenthesized span: a "(" at or before it and a ")"
\* at or after it
InSpan(s, k) ==
    /\ \E i \in 1..k : s[i] = "("
    /\ \E j \in k..Len(s) : s[j] = ")"

HasSpan(s) == \E k \in 1..Len(s) : InSpan(s, k)

OutsideSpan(s) ==
    LET keep == {k \in 1..Len(s) : ~InSpan(s, k)}
        nth(m) == CHOOSE k \in keep : Cardinality({x \in keep : x < k}) = m - 1
    IN  [m \in 1..Cardinality(keep) |-> s[nth(m)]]

\* the results that remove the span with the whitespace around it: the
\* text on either side joined directly or by one space, the ends stripped
SpanAndSurroundingRemoved(s) ==
    LET i == CHOOSE k \in 1..Len(s) : InSpan(s, k) /\ ~InSpan(s, k - 1)
        j == CHOOSE k \in 1..Len(s) : InSpan(s, k) /\ ~InSpan(s, k + 1)
        l == RStripChar(Slice(s, 1, i - 1), " ")
        r == LStripChar(Slice(s, j + 1, Len(s)), " ")
    IN  {Strip(l \o r), Strip(l \o <<" ">> \o r)}

\* C10 as stated: process removes the first maximal parenthesized span and
\* the whitespace surrounding that span and changes nothing else, wherever
\* the span is.
C10_SpanAndSurroundingWhitespace ==
    (p_fn = "remove_parenthesis" /\ HasSpan(p_in))
    => p_out \in SpanAndSurroundingRemoved(p_in)

\* C10 as amended: process removes the characters from the first "(" to the
\* last ")" and then strips the leading and trailing whitespace of the whole
\* result; whitespace next to a span in the middle is kept.
\* "Jane Doe (singer)" becomes "Jane Doe".
C10_SpanRemovedThenStripped ==
    p_fn = "remove_parenthesis"
    => /\ p_out = Strip(OutsideSpan(p_in))
       /\ (p_in = Str_JaneDoeSinger => p_out = Str_JaneDoe)

C10_Witness ==
    /\ p_fn = "remove_parenthesis"
    /\ p_in = <<"a", " ", "(", ")", " ", "a">>
    /\ p_out = <<"a", " ", " ", "a">>

\* ---- PermuteFirstComma.process, against its description

\* s without the commas and whitespace at its two ends
RECURSIVE TrimCommaWs(_)
TrimCommaWs(s) ==
    IF Len(s) > 0 /\ s[1] \in {",", " "} THEN TrimCommaWs(Tail(s))
    ELSE IF Len(s) > 0 /\ s[Len(s)] \in {",", " "}
    THEN TrimCommaWs(Slice(s, 1, Len(s) - 1))
    ELSE s

\* C11: process returns a text without a comma as it is; otherwise it returns
\* the part after the first comma, a space and the part before it, with the
\* commas and whitespace left at the ends trimmed ("Doe, Jane" gives
\* "Jane Doe").
C11_SwapAroundFirstComma ==
    p_fn = "comma"
    => LET i      == FirstIndexOf(p_in, ",")
           before == Slice(p_in, 1, i - 1)
           after  == Slice(p_in, i + 1, Len(p_in))
       IN  /\ (i = 0 => p_out = p_in)
           /\ (i # 0 => p_out = TrimCommaWs(after \o <<" ">> \o before))
           /\ (p_in = Str_DoeCommaJane => p_out = Str_JaneDoe)

\* ------------------------------------------------- TransliteratedName

\* largest number of plain tokens of a Name's text at construction
MaxTokens == 5
\* largest number of processor calls made on one batch
MaxCalls == 2

\* TransliteratedName(...): the fields the normalizers read and write;
\* priv_original_text is the attribute _original_text
MkName(text, is_unchanged, english_text, priv_original_text) ==
    [text |-> text, is_unchanged |-> is_unchanged,
     english_text |-> english_text,
     priv_original_text |-> priv_original_text]

\* Python truth value of an Optional[str]
Truthy(x) == x # None /\ x # <<>>

\* the property original_text: self._original_text or self.text
original_text(n) ==
    IF Truthy(n.priv_original_text) THEN n.priv_original_text ELSE n.text

\* ---- NameProcessor.__call__ (ParenthesisRemover, PermuteFirstComma,
\* ---- RemoveParenthesisPermuteComma)

\* the flag computed in both loops
name_is_unchanged(debug_mode, orig_text, processed_name, name) ==
    IF debug_mode /\ orig_text # processed_name THEN FALSE
    ELSE name.is_unchanged

\* a variant of _call_inplace that leaves is_unchanged alone
NameProcessor_inplace_one_KeepFlag(kind, debug_mode, name) ==
    [name EXCEPT !.priv_original_text = name.text,
                 !.text = process(kind, name.text)]

\* the body of the loop of _call_inplace
NameProcessor_inplace_one(kind, debug_mode, name) ==
    LET orig_text      == name.text
        processed_name == process(kind, name.text)
    IN  [name EXCEPT
            !.is_unchanged =
                name_is_unchanged(debug_mode, orig_text, processed_name, name),
            !.priv_original_text = orig_text,
            !.text = processed_name]

\* the body of the loop of _call_immutable
NameProcessor_immutable_one(kind, debug_mode, name) ==
    LET orig_text      == name.text
        processed_name == process(kind, name.text)
    IN  MkName(processed_name,
               name_is_unchanged(debug_mode, orig_text, processed_name, name),
               name.english_text,
               orig_text)

NameProcessor_call_inplace(kind, debug_mode, ns) ==
    [k \in 1..Len(ns) |-> NameProcessor_inplace_one(kind, debug_mode, ns[k])]

NameProcessor_call_immutable(kind, debug_mode, ns) ==
    [k \in 1..Len(ns) |-> NameProcessor_immutable_one(kind, debug_mode, ns[k])]

\* ---- PermuteLowestDistance

length_lower_bound == 2

length_upper_bound == 4

\* str.split(): the runs of non-whitespace characters
SplitWs(s) == SelectSeq(SplitOn(s, " "), LAMBDA t : Len(t) > 0)

\* string.replace(",", "")
remove_comma(s) == SelectSeq(s, LAMBDA c : c # ",")

strip_comma(s) == StripChar(s, ",")

\* editdistance.eval(a, b): the Levenshtein distance, by rows
RECURSIVE LevRow(_, _, _, _)
LevRow(prev, ca, b, row) ==
    IF Len(row) = Len(b) + 1 THEN row
    ELSE LET j    == Len(row)
             cost == IF ca = b[j] THEN 0 ELSE 1
         IN  LevRow(prev, ca, b,
                    Append(row, Min2(Min2(prev[j + 1] + 1, row[j] + 1),
                                     prev[j] + cost)))

RECURSIVE LevRows(_, _, _)
LevRows(prev, a, b) ==
    IF Len(a) = 0 THEN prev
    ELSE LevRows(LevRow(prev, a[1], b, <<prev[1] + 1>>), Tail(a), b)

editdistance_eval(a, b) ==
    LevRows([j \in 1..(Len(b) + 1) |-> j - 1], a, b)[Len(b) + 1]

\* s without its i-th element
RemoveAt(s, i) == Slice(s, 1, i - 1) \o Slice(s, i + 1, Len(s))

\* list(it.permutations(s)): by position, lexicographic in the positions
RECURSIVE it_permutations(_)
RECURSIVE it_permutations_from(_, _)
it_permutations_from(s, i) ==
    IF i > Len(s) THEN <<>>
    ELSE LET rest == it_permutations(RemoveAt(s, i))
         IN  [k \in 1..Len(rest) |-> <<s[i]>> \o rest[k]]
                 \o it_permutations_from(s, i + 1)

it_permutations(s) ==
    IF Len(s) = 0 THEN << <<>> >> ELSE it_permutations_from(s, 1)

\* permutations joined without the separating space
JoinedPermutations_Merged(tokens) ==
    LET ps == it_permutations(tokens)
    IN  [k \in 1..Len(ps) |-> Join(ps[k], <<>>)]

\* [" ".join(perm) for perm in it.permutations(tokens)]
JoinedPermutations(tokens) ==
    LET ps == it_permutations(tokens)
    IN  [k \in 1..Len(ps) |-> Join(ps[k], <<" ">>)]

name_tokens(name) == SplitWs(remove_comma(name.text))

\* a bound check whose lower end is one too low
InBounds_LowerOff(n) ==
    length_lower_bound - 1 <= n /\ n <= length_upper_bound

\* length_lower_bound <= len(tokens) <= length_upper_bound
InBounds(n) == length_lower_bound <= n /\ n <= length_upper_bound

\* the search loop over zip(permuted, permuted_romanized);
\* acc.found = FALSE stands for best_distance = np.inf
RECURSIVE BestLoop(_, _, _, _, _, _)
BestLoop(acc, permuted, permuted_romanized, english_text, k, inplace) ==
    IF k > Min2(Len(permuted), Len(permuted_romanized)) THEN acc
    ELSE LET ed == editdistance_eval(permuted_romanized[k], english_text)
         IN  BestLoop(
                 IF ~acc.found \/ ed < acc.best_distance
                 THEN [found |-> TRUE, best_distance |-> ed,
                       best_name |-> IF inplace THEN permuted[k]
                                     ELSE Strip(strip_comma(permuted[k]))]
                 ELSE acc,
                 permuted, permuted_romanized, english_text, k + 1, inplace)

best_name(name, romanized_name, inplace) ==
    BestLoop([found |-> FALSE, best_distance |-> 0, best_name |-> name.text],
             JoinedPermutations(name_tokens(name)),
             JoinedPermutations(SplitWs(remove_comma(romanized_name))),
             name.english_text, 1, inplace).best_name

\* distance_function(rom_permutation, None) raises TypeError; the loop runs
\* at least once for every Name within the bounds
PermuteRaises(name) ==
    InBounds(Len(name_tokens(name))) /\ name.english_text = None

\* the body of the loop of PermuteLowestDistance._call_inplace
PermuteLowestDistance_inplace_one(name, romanized_name) ==
    IF ~InBounds(Len(name_tokens(name))) THEN name
    ELSE LET orig_text == name.text
             best      == best_name(name, romanized_name, TRUE)
         IN  [name EXCEPT !.text = strip_comma(best),
                          !.is_unchanged = (best = orig_text),
                          !.priv_original_text = orig_text]

\* the body of the loop of PermuteLowestDistance._call_immutable
PermuteLowestDistance_immutable_one(name, romanized_name) ==
    IF ~InBounds(Len(name_tokens(name))) THEN name
    ELSE LET orig_text == name.text
             best      == best_name(name, romanized_name, FALSE)
         IN  MkName(strip_comma(best), best = orig_text,
                    name.english_text, orig_text)

\* index of the first Name at which the loop raises, 0 when it completes
FirstRaise(ns) ==
    IF \A k \in 1..Len(ns) : ~PermuteRaises(ns[k]) THEN 0
    ELSE CHOOSE k \in 1..Len(ns) :
             PermuteRaises(ns[k]) /\ \A m \in 1..(k - 1) : ~PermuteRaises(ns[m])

\* the objects of ns after _call_inplace: the Names before the raising one
\* are already rewritten
PermuteLowestDistance_call_inplace(ns, romanized_names) ==
    [k \in 1..Len(ns) |->
        IF FirstRaise(ns) = 0 \/ k < FirstRaise(ns)
        THEN PermuteLowestDistance_inplace_one(ns[k], romanized_names[k])
        ELSE ns[k]]

PermuteLowestDistance_call_immutable(ns, romanized_names) ==
    [k \in 1..Len(ns) |->
        PermuteLowestDistance_immutable_one(ns[k], romanized_names[k])]

\* ---- the romanizer: an external process; for a text it answers the text
\* ---- itself, or the text with its first two tokens run together
RomanizerAnswers == {"same", "one_token_fewer"}

romanize_one(answer, text) ==
    LET sp == FirstIndexOf(Strip(text), " ")
    IN  IF answer = "same" \/ sp = 0 THEN text
        ELSE RemoveAt(Strip(text), sp)

\* self.romanize([n.text for n in names]) under the answers ans
romanize(ans, ns) == [k \in 1..Len(ns) |-> romanize_one(ans[k], ns[k].text)]

\* ---- the Names a batch is built from

NameWords == {<<"a">>, <<"b">>}

\* token lists of up to MaxTokens words with at most one "b" among them
TokenSeqs ==
    UNION {{ts \in [1..n -> NameWords] :
               Cardinality({k \in 1..n : ts[k] = <<"b">>}) <= 1} :
           n \in 0..MaxTokens}

\* a text of plain tokens, with a trailing parenthesized span, or with a
\* comma after its first token
NameTextsOf(toks) ==
    {Join(toks, <<" ">>),
     Join(toks \o << <<"(", "c", ")">> >>, <<" ">>),
     IF Len(toks) = 0 THEN <<",">>
     ELSE Join(<<toks[1] \o <<",">> >> \o Tail(toks), <<" ">>)}

NameTexts == UNION {NameTextsOf(toks) : toks \in TokenSeqs}

Str_a_b == <<"a", " ", "b">>

Str_DoeJohn == <<"D", "o", "e", " ", "J", "o", "h", "n">>

Str_JohnDoe == <<"J", "o", "h", "n", " ", "D", "o", "e">>

\* english_text: absent (the attr default), empty, or a reference
EnglishRefs == {None, <<>>, Str_a_b}

\* TransliteratedName as the loaders construct it: is_unchanged=True and no
\* _original_text
InitNames ==
    {MkName(t, TRUE, e, None) : t \in NameTexts, e \in EnglishRefs}
        \cup {MkName(Str_DoeJohn, TRUE, Str_JohnDoe, None)}

InitNorm ==
    /\ names \in {<<n>> : n \in InitNames}
    /\ passed = names
    /\ pre = names
    /\ last = [op |-> "none", inplace |-> FALSE, debug_mode |-> FALSE,
               romanized |-> <<>>]
    /\ err = "none"
    /\ calls = 0
    /\ AlignIdle
    /\ ProcIdle
    /\ OracleIdle
    /\ CorpusIdle
    /\ ScriptIdle
    /\ TagIdle

\* NameProcessor.__call__ of a subclass that only defines process
NameProcessor_call(kind, inplace, debug_mode) ==
    /\ err = "none"
    /\ calls < MaxCalls
    /\ calls' = calls + 1
    /\ pre' = names
    /\ names' = IF inplace
                THEN NameProcessor_call_inplace(kind, debug_mode, names)
                ELSE NameProcessor_call_immutable(kind, debug_mode, names)
    /\ passed' = IF inplace
                 THEN NameProcessor_call_inplace(kind, debug_mode, names)
                 ELSE names
    /\ last' = [op |-> kind, inplace |-> inplace, debug_mode |-> debug_mode,
                romanized |-> <<>>]
    /\ err' = "none"
    /\ UNCHANGED <<alignVars, procVars, oracleVars, corpusVars,
                 scriptVars, tagVars>>

\* PermuteLowestDistance.__call__ (debug_mode only prints there)
PermuteLowestDistance_call(inplace, ans) ==
    LET romanized_names == romanize(ans, names)
        raises          == FirstRaise(names) # 0
        mutated         == PermuteLowestDistance_call_inplace(names,
                                                              romanized_names)
    IN  /\ err = "none"
        /\ calls < MaxCalls
        /\ calls' = calls + 1
        /\ pre' = names
        /\ passed' = IF inplace THEN mutated ELSE names
        /\ names' = IF inplace THEN mutated
                    ELSE IF raises THEN names
                    ELSE PermuteLowestDistance_call_immutable(names,
                                                              romanized_names)
        /\ last' = [op |-> "edit_distance", inplace |-> inplace,
                    debug_mode |-> FALSE, romanized |-> romanized_names]
        /\ err' = IF raises THEN "TypeError" ELSE "none"
        /\ UNCHANGED <<alignVars, procVars, oracleVars, corpusVars,
                 scriptVars, tagVars>>

\* RemoveParenthesisPermuteLowestDistance.__call__: both stages are built
\* with the default inplace=False, whatever the composite's own flag
RemoveParenthesisPermuteLowestDistance_call(inplace, debug_mode, ans) ==
    LET processed       == NameProcessor_call_immutable("remove_parenthesis",
                                                        debug_mode, names)
        romanized_names == romanize(ans, processed)
        raises          == FirstRaise(processed) # 0
    IN  /\ err = "none"
        /\ calls < MaxCalls
        /\ calls' = calls + 1
        /\ pre' = names
        /\ passed' = names
        /\ names' = IF raises THEN names
                    ELSE PermuteLowestDistance_call_immutable(processed,
                                                              romanized_names)
        /\ last' = [op |-> "remove_parenthesis_edit_distance",
                    inplace |-> inplace, debug_mode |-> debug_mode,
                    romanized |-> romanized_names]
        /\ err' = IF raises THEN "TypeError" ELSE "none"
        /\ UNCHANGED <<alignVars, procVars, oracleVars, corpusVars,
                 scriptVars, tagVars>>

NextNorm ==
    \/ \E kind \in ProcessKinds, inplace \in BOOLEAN, debug_mode \in BOOLEAN :
           NameProcessor_call(kind, inplace, debug_mode)
    \/ \E inplace \in BOOLEAN, ans \in [1..Len(names) -> RomanizerAnswers] :
           PermuteLowestDistance_call(inplace, ans)
    \/ \E inplace \in BOOLEAN, debug_mode \in BOOLEAN,
          ans \in [1..Len(names) -> RomanizerAnswers] :
           RemoveParenthesisPermuteLowestDistance_call(inplace, debug_mode, ans)

SpecNorm == InitNorm /\ [][NextNorm]_vars

\* ---- properties of the NameProcessor calls

NormOps == ProcessKinds \cup {"edit_distance", "remove_parenthesis_edit_distance"}

Called == last.op \in NormOps

\* C3: through the Name-level wrapper, in either mode and with debug_mode on
\* or off, a Name whose process(text) differs from its text ends with
\* is_unchanged = false, original_text = the text before, text = the result.
C3_WrapperRecordsChange ==
    last.op \in ProcessKinds
    => \A k \in 1..Len(names) :
           process(last.op, pre[k].text) # pre[k].text
           => /\ names[k].is_unchanged = FALSE
              /\ original_text(names[k]) = pre[k].text
              /\ names[k].text = process(last.op, pre[k].text)

\* C4: is_unchanged is monotonic: a Name that enters a normalizer call with
\* is_unchanged = false leaves it with is_unchanged = false.
C4_IsUnchangedMonotonic ==
    Called
    => \A k \in 1..Len(names) :
           pre[k].is_unchanged = FALSE => names[k].is_unchanged = FALSE

\* C5: original_text is set at most once: a Name that enters a normalizer
\* call with a recorded original text leaves it with the same one.
C5_OriginalTextSetOnce ==
    Called
    => \A k \in 1..Len(names) :
           pre[k].priv_original_text # None
           => names[k].priv_original_text = pre[k].priv_original_text

\* what the claims compare of a Name
View(n) == <<n.text, n.is_unchanged, original_text(n)>>

\* the list a call of processor op returns on ns in the given mode
CallResult(op, inplace, debug_mode, ns, romanized_names) ==
    IF op \in ProcessKinds
    THEN IF inplace THEN NameProcessor_call_inplace(op, debug_mode, ns)
         ELSE NameProcessor_call_immutable(op, debug_mode, ns)
    ELSE IF op = "edit_distance"
    THEN IF inplace
         THEN PermuteLowestDistance_call_inplace(ns, romanized_names)
         ELSE PermuteLowestDistance_call_immutable(ns, romanized_names)
    ELSE PermuteLowestDistance_call_immutable(
             NameProcessor_call_immutable("remove_parenthesis", debug_mode, ns),
             romanized_names)

\* C6: for every normalizer and every Name, the in-place call and the
\* copy-producing call of the same configuration on an equal pre-image give
\* the same text, is_unchanged and original_text (same romanizer answers).
C6_ModesAgree ==
    (Called /\ err = "none")
    => \A k \in 1..Len(names) :
           View(names[k]) =
               View(CallResult(last.op, ~last.inplace, last.debug_mode,
                               pre, last.romanized)[k])

C6_Witness ==
    /\ last.op = "edit_distance"
    /\ last.inplace
    /\ err = "none"
    /\ pre[1].text = <<"b", ",", " ", "a">>
    /\ names[1].text = <<"a", " ", "b">>
    /\ names[1].is_unchanged = FALSE

\* number of whitespace tokens of the comma-removed text: the characters
\* that start a token
CountTokens(text) ==
    LET plain(k) == text[k] # " " /\ text[k] # ","
        starts(k) ==
            /\ plain(k)
            /\ \A m \in 1..(k - 1) :
                   (text[m] # "," /\ \A x \in (m + 1)..(k - 1) : text[x] = ",")
                   => text[m] = " "
    IN  Cardinality({k \in 1..Len(text) : starts(k)})

\* C7: the permuter leaves a Name untouched when the token count of its
\* comma-removed text is outside [length_lower_bound, length_upper_bound].
C7_OutOfBoundsUnchanged ==
    last.op = "edit_distance"
    => \A k \in 1..Len(names) :
           (CountTokens(pre[k].text) < length_lower_bound
               \/ CountTokens(pre[k].text) > length_upper_bound)
           => names[k] = pre[k] /\ passed[k] = pre[k]

C7_Witness ==
    /\ last.op = "edit_distance"
    /\ CountTokens(pre[1].text) = 5
    /\ pre[1].english_text = Str_a_b
    /\ names[1] = pre[1]

\* ---- the search as section 4.3 of the specification defines it

\* the tokens of toks at the positions p, as far as they exist, then the
\* tokens of toks beyond the positions p names
AtPositions(p, toks) ==
    LET have == SelectSeq(p, LAMBDA i : i <= Len(toks))
    IN  [k \in 1..Len(have) |-> toks[have[k]]]
            \o Slice(toks, Len(p) + 1, Len(toks))

\* the text the search of the claim selects: every permutation of the token
\* positions, the romanized tokens permuted the same way, the first minimum
LockstepBest(name, romanized_name) ==
    LET toks  == name_tokens(name)
        rtoks == SplitWs(remove_comma(romanized_name))
        ps    == it_permutations([k \in 1..Len(toks) |-> k])
        d(k)  == editdistance_eval(Join(AtPositions(ps[k], rtoks), <<" ">>),
                                   name.english_text)
        best  == CHOOSE k \in 1..Len(ps) :
                     /\ \A m \in 1..Len(ps) : d(k) <= d(m)
                     /\ \A m \in 1..(k - 1) : d(m) > d(k)
    IN  Join(AtPositions(ps[best], toks), <<" ">>)

WithinBounds(text) ==
    /\ CountTokens(text) >= length_lower_bound
    /\ CountTokens(text) <= length_upper_bound

\* C8: for a Name within the bound the permuter sets text to the permutation
\* of the original tokens whose romanized counterpart (the same permutation
\* of the romanized tokens) is closest to english_text, the first on ties,
\* whatever the romanizer answers; "Doe John" with reference "John Doe" and
\* an identity romanizer gives "John Doe" and is_unchanged = false.
C8_LockstepSearch ==
    (last.op = "edit_distance" /\ err = "none")
    => \A k \in 1..Len(names) :
           WithinBounds(pre[k].text)
           => /\ names[k].text = LockstepBest(pre[k], last.romanized[k])
              /\ (pre[k].text = Str_DoeJohn /\ last.romanized[k] = Str_DoeJohn
                     => names[k].text = Str_JohnDoe /\ ~names[k].is_unchanged)

\* C9: with an empty or absent english_text the permuter does not raise and
\* the Name keeps its token order.
C9_EmptyReferenceKeepsOrder ==
    last.op = "edit_distance"
    => \A k \in 1..Len(names) :
           pre[k].english_text \in {None, <<>>}
           => /\ err = "none"
              /\ name_tokens(names[k]) = name_tokens(pre[k])

\* number of times the token w occurs in toks
TokenCount(toks, w) == Cardinality({k \in 1..Len(toks) : toks[k] = w})

\* the two token lists are equal as multisets
SameTokens(a, b) ==
    /\ Len(a) = Len(b)
    /\ \A k \in 1..Len(a) : TokenCount(a, a[k]) = TokenCount(b, a[k])

\* C29 as stated: for every Name the text the permuter produces has exactly
\* the multiset of whitespace tokens of the comma-removed input text.
C29_TokensOfEveryName ==
    (last.op = "edit_distance" /\ err = "none")
    => \A k \in 1..Len(names) :
           SameTokens(SplitWs(names[k].text),
                      SplitWs(remove_comma(pre[k].text)))

\* C29, amended: for a Name within the bounds the produced text has exactly
\* the multiset of whitespace tokens of the comma-removed input text; a Name
\* outside the bounds keeps its text, commas included.
C29_TokensPreservedWithinBounds ==
    (last.op = "edit_distance" /\ err = "none")
    => \A k \in 1..Len(names) :
           /\ WithinBounds(pre[k].text)
                  => SameTokens(SplitWs(names[k].text),
                                SplitWs(remove_comma(pre[k].text)))
           /\ ~WithinBounds(pre[k].text) => names[k].text = pre[k].text

C29_Witness ==
    /\ last.op = "edit_distance"
    /\ err = "none"
    /\ pre[1].text = <<"b", ",", " ", "a">>
    /\ names[1].text = <<"a", " ", "b">>
    /\ pre[1].english_text = Str_a_b
    /\ ~last.inplace

\* ------------------------------------------------------- external oracles

\* largest number of strings or Names handed to one oracle call; the
\* external process writes up to one line more
MaxBatch == 2

NL == "\n"

\* TransliteratedName(...) with the fields the aligner and the Corpus read
TransliteratedName(text, is_unchanged, language, wikidata_id, eng, al, orig) ==
    [text |-> text, is_unchanged |-> is_unchanged,
     english_text |-> eng,
     priv_original_text |-> orig,
     language |-> language, wikidata_id |-> wikidata_id,
     alignment |-> al]

\* the attribute alignment is an Optional[Alignment]: the empty sequence for
\* None, a sequence of one Alignment otherwise
NoAlignment == <<>>

\* Alignment(alignment_str=str) after __attrs_post_init__
Alignment(str) ==
    [alignment_str      |-> Strip(str),
     n_cross_alignments |-> IF Len(Strip(str)) = 0 THEN 0
                            ELSE compute_cross_alignments(Strip(str))]

\* Alignment(alignment_str=str) raises ValueError
AlignmentRaises(str) == Len(Strip(str)) > 0 /\ ComputeRaises(Strip(str))

\* completed_pid.stdout of a process that wrote the given lines, the last
\* one with or without its newline
ProcessStdout(lines, trailing) ==
    Join(lines, <<NL>>) \o (IF trailing /\ Len(lines) > 0 THEN <<NL>> ELSE <<>>)

\* [line for x, line in zip(xs, stdout.split("\n"))] for len(xs) = n
ZipLines(n, stdout) ==
    LET ls == SplitOn(stdout, NL)
    IN  Slice(ls, 1, Min2(n, Len(ls)))

\* a call whose OSError handler only prints, like the handler above it
UniversalRomanizer_call_NoRaise(strings, installed, stdout) ==
    LET uroman_output == ZipLines(Len(strings), stdout)
    IN  IF installed /\ Len(uroman_output) # Len(strings)
        THEN [pc |-> "AssertionError",
              msg |-> "len(uroman_output) != len(strings)",
              out |-> <<>>, runs |-> 1]
        ELSE [pc |-> "returned", msg |-> "",
              out |-> IF installed THEN uroman_output ELSE <<>>, runs |-> 1]

\* UniversalRomanizer.call(strings); subprocess.run is called without
\* check=True, so CalledProcessError is never raised
UniversalRomanizer_call(strings, installed, stdout) ==
    LET uroman_output == ZipLines(Len(strings), stdout)
    IN  IF ~installed
        THEN [pc |-> "ValueError", msg |-> "uroman must be installed!",
              out |-> <<>>, runs |-> 1]
        ELSE IF Len(uroman_output) # Len(strings)
        THEN [pc |-> "AssertionError",
              msg |-> "len(uroman_output) != len(strings)",
              out |-> <<>>, runs |-> 1]
        ELSE [pc |-> "returned", msg |-> "", out |-> uroman_output,
              runs |-> 1]

\* string.replace(" ", "_") with the placeholder glyph written "_"
replace_space(s) == [k \in 1..Len(s) |-> IF s[k] = " " THEN "_" ELSE s[k]]

\* ' '.join(s): the characters of s separated by spaces
join_chars(s) == Join([k \in 1..Len(s) |-> <<s[k]>>], <<" ">>)

\* the line FastAligner writes for one Name into its training data
alignment_train_line(name) ==
    join_chars(Strip(replace_space(name.text)))
        \o <<" ", "|", "|", "|", " ">>
        \o join_chars(replace_space(name.english_text))

\* the loop "for name, alignment in name_alignment_iter: add_alignment"
link_alignments(ns, alignments) ==
    [k \in 1..Len(ns) |->
        IF k <= Len(alignments)
        THEN [ns[k] EXCEPT !.alignment = <<alignments[k]>>]
        ELSE ns[k]]

\* FastAligner.__call__(names): names is the list after the call, whether it
\* returned or raised
FastAligner_call(ns, installed, stdout) ==
    LET fastalign_stdout == ZipLines(Len(ns), stdout)
        alignments == [k \in 1..Len(fastalign_stdout) |->
                          Alignment(fastalign_stdout[k])]
        quiet == [pc |-> "returned", msg |-> "", names |-> ns,
                  alignments |-> <<>>, train |-> <<>>, runs |-> 0]
    IN  IF \E k \in 1..Len(ns) : ns[k].english_text = None
        THEN [quiet EXCEPT !.pc = "AttributeError",
                  !.msg = "'NoneType' object has no attribute 'replace'"]
        ELSE LET train == [k \in 1..Len(ns) |-> alignment_train_line(ns[k])]
             IN  IF ~installed
                 THEN [quiet EXCEPT !.pc = "ValueError",
                           !.msg = "fast_align must be installed!",
                           !.train = train, !.runs = 1]
                 ELSE IF \E k \in 1..Len(fastalign_stdout) :
                             AlignmentRaises(fastalign_stdout[k])
                 THEN [quiet EXCEPT !.pc = "ValueError",
                           !.msg = "invalid literal for int()",
                           !.train = train, !.runs = 1]
                 ELSE [pc |-> IF Len(alignments) = Len(ns) THEN "returned"
                              ELSE "AssertionError",
                       msg |-> "",
                       names |-> link_alignments(ns, alignments),
                       alignments |-> alignments,
                       train |-> train, runs |-> 1]

\* ---- one oracle call

Str_a == <<"a">>

Str_b_a == <<"b", " ", "a">>

Str_xing == <<"0", "-", "1", " ", "1", "-", "0">>

Str_mono == <<"0", "-", "0">>

RomanizerStrings == {Str_a, Str_b_a}

RomanizerLines == {Str_a, Str_b_a}

AlignerLines == {Str_mono, Str_xing}

SeqsUpTo(S, n) == UNION {[1..m -> S] : m \in 0..n}

OracleNames ==
    {TransliteratedName(Str_a_b, TRUE, "fi", "Q1", Str_b_a, NoAlignment, None),
     TransliteratedName(Str_a, TRUE, "sv", "Q2", None, NoAlignment, None)}

InitOracle ==
    /\ \/ o_fn = "UniversalRomanizer" /\ o_in \in SeqsUpTo(RomanizerStrings, MaxBatch)
       \/ o_fn = "FastAligner" /\ o_in \in SeqsUpTo(OracleNames, MaxBatch)
    /\ o_installed = TRUE
    /\ o_lines = <<>>
    /\ o_stdout = <<>>
    /\ o_out = <<>>
    /\ o_pc = "new"
    /\ o_msg = ""
    /\ o_runs = 0
    /\ AlignIdle
    /\ ProcIdle
    /\ NamesIdle
    /\ CorpusIdle
    /\ ScriptIdle
    /\ TagIdle

\* UniversalRomanizer.__call__ with num_workers = 1
UniversalRomanizer_call_run(installed, lines, trailing) ==
    LET stdout == IF installed THEN ProcessStdout(lines, trailing) ELSE <<>>
        r      == UniversalRomanizer_call(o_in, installed, stdout)
    IN  /\ o_fn = "UniversalRomanizer"
        /\ o_pc = "new"
        /\ o_installed' = installed
        /\ o_lines' = IF installed THEN lines ELSE <<>>
        /\ o_stdout' = stdout
        /\ o_out' = r.out
        /\ o_pc' = r.pc
        /\ o_msg' = r.msg
        /\ o_runs' = o_runs + r.runs
        /\ UNCHANGED <<o_fn, o_in, alignVars, procVars, nameVars,
                    corpusVars, scriptVars, tagVars>>

FastAligner_call_run(installed, lines, trailing) ==
    LET stdout == IF installed THEN ProcessStdout(lines, trailing) ELSE <<>>
        r      == FastAligner_call(o_in, installed, stdout)
    IN  /\ o_fn = "FastAligner"
        /\ o_pc = "new"
        /\ o_installed' = installed
        /\ o_lines' = IF installed /\ r.runs > 0 THEN lines ELSE <<>>
        /\ o_stdout' = IF r.runs > 0 THEN stdout ELSE <<>>
        /\ o_out' = r.names
        /\ o_pc' = r.pc
        /\ o_msg' = r.msg
        /\ o_runs' = o_runs + r.runs
        /\ UNCHANGED <<o_fn, o_in, alignVars, procVars, nameVars,
                    corpusVars, scriptVars, tagVars>>

NextOracle ==
    \/ \E installed \in BOOLEAN, trailing \in BOOLEAN,
          lines \in SeqsUpTo(RomanizerLines, MaxBatch + 1) :
           UniversalRomanizer_call_run(installed, lines, trailing)
    \/ \E installed \in BOOLEAN, trailing \in BOOLEAN,
          lines \in SeqsUpTo(AlignerLines, MaxBatch + 1) :
           FastAligner_call_run(installed, lines, trailing)

SpecOracle == InitOracle /\ [][NextOracle]_vars

OracleDone == o_pc \notin {"idle", "new"}

\* C12: the Romanizer returns one string per input, in order, exactly when
\* the process wrote as many lines as there are inputs; with fewer lines, one
\* line missing before a trailing newline, or extra lines, the call raises.
C12_RomanizerCountChecked ==
    (o_fn = "UniversalRomanizer" /\ OracleDone /\ o_installed)
    => IF Len(o_lines) = Len(o_in)
       THEN o_pc = "returned" /\ o_out = o_lines
       ELSE o_pc = "AssertionError"

\* C13: the aligner attaches the alignment parsed from line k to Name k; with
\* fewer or more lines than Names the call raises, and no Name carries an
\* alignment that was not parsed from its own line.
C13_AlignmentsByPosition ==
    (o_fn = "FastAligner" /\ OracleDone /\ o_installed /\ o_runs > 0)
    => /\ IF Len(o_lines) = Len(o_in)
          THEN /\ o_pc = "returned"
               /\ \A k \in 1..Len(o_in) :
                      o_out[k].alignment = <<Alignment(o_lines[k])>>
          ELSE o_pc = "AssertionError"
       /\ \A k \in 1..Len(o_out) :
              o_out[k].alignment # NoAlignment
              => /\ k <= Len(o_lines)
                 /\ o_out[k].alignment = <<Alignment(o_lines[k])>>

\* C14: when subprocess.run does not find the executable, the call raises
\* ValueError with a message naming the oracle, after one attempt, and hands
\* back no result: no romanized list, no Name with an alignment.
C14_AbsentOracleIsFatal ==
    (OracleDone /\ ~o_installed /\ o_runs > 0)
    => /\ o_pc = "ValueError"
       /\ o_runs = 1
       /\ o_fn = "UniversalRomanizer"
              => o_msg = "uroman must be installed!" /\ o_out = <<>>
       /\ o_fn = "FastAligner"
              => /\ o_msg = "fast_align must be installed!"
                 /\ o_out = o_in

C14_Witness ==
    /\ o_fn = "UniversalRomanizer"
    /\ ~o_installed
    /\ Len(o_in) = 2
    /\ o_pc = "ValueError"
    /\ o_msg = "uroman must be installed!"

\* ---------------------------------------------------------------- Corpus

\* ---- UnicodeAnalyzer as the Corpus configures it by default: strip,
\* ---- ignore_punctuation, ignore_numbers and normalize_histogram all True

\* a letter outside Basic Latin (a Cyrillic one), written "y" here
Cyr == "y"

\* a CJK ideograph, a Hiragana letter, a Katakana letter and a code point
\* that belongs to no block, written with capital letters here
Han == "Z"
Hira == "H"
Kata == "K"
Unassigned == "U"

\* unicodeblock.blocks.of(c); "None" stands for the None it returns for a
\* code point outside every block
blocks_of(c) ==
    CASE c = Cyr -> "CYRILLIC"
      [] c = Han -> "CJK_UNIFIED_IDEOGRAPHS"
      [] c = Hira -> "HIRAGANA"
      [] c = Kata -> "KATAKANA"
      [] c = Unassigned -> "None"
      [] OTHER -> "BASIC_LATIN"

\* ud.category(c) starts with "P" or "S"
is_punctuation(c) == c \in {"(", ")", ",", "|", "-", "_"}

\* ud.category(c) starts with "N"
is_number(c) == IsDigit(c)

\* Counter(...): the counted keys in first-seen order, each with its count
RECURSIVE Counter(_, _)
Counter(keys, acc) ==
    IF Len(keys) = 0 THEN acc
    ELSE LET key == Head(keys)
         IN  Counter(Tail(keys),
                 IF \E k \in 1..Len(acc) : acc[k].block = key
                 THEN [k \in 1..Len(acc) |->
                          IF acc[k].block = key
                          THEN [acc[k] EXCEPT !.count = @ + 1] ELSE acc[k]]
                 ELSE Append(acc, [block |-> key, count |-> 1]))

unicode_blocks(word) ==
    LET counted == SelectSeq(Strip(word),
                       LAMBDA c : /\ blocks_of(c) # "None"
                                  /\ ~is_punctuation(c) /\ ~is_number(c))
    IN  Counter([k \in 1..Len(counted) |-> blocks_of(counted[k])], <<>>)

RECURSIVE SumCounts(_)
SumCounts(h) == IF Len(h) = 0 THEN 0 ELSE h[1].count + SumCounts(Tail(h))

\* unicode_block_histogram(word): every count divided by the total, kept as
\* the fraction count / total
unicode_block_histogram(word) ==
    LET h == unicode_blocks(word)
    IN  [k \in 1..Len(h) |->
            [block |-> h[k].block, value |-> <<h[k].count, SumCounts(h)>>]]

\* prototype.most_common()[0][0]: the first key of the largest value (the
\* values share their denominator); only called on a non-empty histogram
most_common_first(h) ==
    LET k == CHOOSE i \in 1..Len(h) :
                 /\ \A m \in 1..Len(h) : h[m].value[1] <= h[i].value[1]
                 /\ \A m \in 1..(i - 1) : h[m].value[1] < h[i].value[1]
    IN  h[k].block

\* ---- CorpusStatistics

RECURSIVE total_cross(_)
total_cross(ns) ==
    IF Len(ns) = 0 THEN 0
    ELSE (IF ns[1].alignment # NoAlignment
          THEN ns[1].alignment[1].n_cross_alignments ELSE 0)
             + total_cross(Tail(ns))

\* sum(n.is_unchanged == value for n in names)
count_is_unchanged(ns, value) ==
    Cardinality({k \in 1..Len(ns) : ns[k].is_unchanged = value})

\* statistics whose total_surviving only counts the aligned Names
CorpusStatistics_SurvivingAligned(ns) ==
    [names |-> ns,
     total_names |-> Len(ns),
     total_cross_alignments |-> total_cross(ns),
     mean_cross_alignments |-> <<total_cross(ns), Len(ns)>>,
     total_permuted |-> count_is_unchanged(ns, FALSE),
     total_surviving |->
         Cardinality({k \in 1..Len(ns) :
             ns[k].is_unchanged /\ ns[k].alignment # NoAlignment})]

\* CorpusStatistics(names=ns) after __attrs_post_init__, for len(ns) > 0;
\* mean_cross_alignments is kept as the fraction total / count
CorpusStatistics(ns) ==
    [names |-> ns,
     total_names |-> Len(ns),
     total_cross_alignments |-> total_cross(ns),
     mean_cross_alignments |-> <<total_cross(ns), Len(ns)>>,
     total_permuted |-> count_is_unchanged(ns, FALSE),
     total_surviving |-> count_is_unchanged(ns, TRUE)]

\* the division by total_names raises ZeroDivisionError
CorpusStatisticsRaises(ns) == Len(ns) = 0

\* ---- the stages of Corpus.__attrs_post_init__

\* an order with the filter ahead of the name processor
StageOrder_FilterFirst ==
    <<"filter", "normalize", "prototype", "align", "statistics">>

\* the statements of __attrs_post_init__ from line 941 on, in program order
StageOrder == <<"normalize", "filter", "prototype", "align", "statistics">>

\* a TransliteratedName(...) a processor builds from name: the keyword
\* arguments of the constructor call
Rebuilt(made, name, alignment) ==
    TransliteratedName(made.text, made.is_unchanged, name.language,
                       name.wikidata_id, made.english_text, alignment,
                       made.priv_original_text)

\* what the external process does when a stage runs it
OracleOutcomes == {"ok", "fails", "absent"}

\* stdout of uroman: the lines as they came when it works (an identity
\* romanizer), nothing when it exits with an error
uroman_stdout(outcome, strings) ==
    IF outcome = "ok" THEN ProcessStdout(strings, FALSE) ELSE <<>>

\* stdout of fast_align: one alignment line per Name and a final newline when
\* it works, nothing when it exits with an error
fast_align_line(name) ==
    IF Len(SplitWs(name.text)) >= 2 THEN Str_xing ELSE Str_mono

fast_align_stdout(outcome, ns) ==
    IF outcome = "ok"
    THEN ProcessStdout([k \in 1..Len(ns) |-> fast_align_line(ns[k])], TRUE)
    ELSE <<>>

\* self.permuter(self.names) for permuter_class ParenthesisRemover
Corpus_permuter_process(cfg, ns) ==
    [pc |-> "ok",
     names |->
         IF cfg.permuter_inplace
         THEN NameProcessor_call_inplace("remove_parenthesis", cfg.debug_mode,
                                         ns)
         ELSE [k \in 1..Len(ns) |->
                  Rebuilt(NameProcessor_immutable_one("remove_parenthesis",
                                                      cfg.debug_mode, ns[k]),
                          ns[k], ns[k].alignment)]]

\* self.permuter(self.names) for permuter_class PermuteLowestDistance
Corpus_permuter_edit_distance(cfg, ns, outcome) ==
    LET strings == [k \in 1..Len(ns) |-> ns[k].text]
        r == UniversalRomanizer_call(strings, outcome # "absent",
                                     uroman_stdout(outcome, strings))
    IN  IF r.pc # "returned" THEN [pc |-> r.pc, names |-> ns]
        ELSE IF FirstRaise(ns) # 0 THEN [pc |-> "TypeError", names |-> ns]
        ELSE [pc |-> "ok",
              names |->
                  IF cfg.permuter_inplace
                  THEN PermuteLowestDistance_call_inplace(ns, r.out)
                  ELSE [k \in 1..Len(ns) |->
                           IF InBounds(Len(name_tokens(ns[k])))
                           THEN Rebuilt(PermuteLowestDistance_immutable_one(
                                            ns[k], r.out[k]),
                                        ns[k], NoAlignment)
                           ELSE ns[k]]]

\* Corpus.filter_names
filter_names(cfg, ns) ==
    SelectSeq(ns, LAMBDA n :
        LET transliteration_not_blank == Len(Strip(n.text)) > 0
            has_english_if_needed ==
                IF cfg.require_english THEN n.english_text # n.wikidata_id
                ELSE TRUE
        IN  transliteration_not_blank /\ has_english_if_needed)

\* "".join(n.text for n in self.names)
joined_texts(ns) == Join([k \in 1..Len(ns) |-> ns[k].text], <<>>)

\* Corpus.compute_alignments: the aligner gets the Names themselves
Corpus_compute_alignments(ns, outcome) ==
    FastAligner_call(ns, outcome # "absent", fast_align_stdout(outcome, ns))

\* sorted(list(set(name.language for name in self.names)))
languages_of(ns) == {ns[k].language : k \in 1..Len(ns)}

\* Corpus.compute_stats, for a non-empty list: self.stats
compute_stats(ns) ==
    [scope \in {"global"} \cup languages_of(ns) |->
        IF scope = "global" THEN CorpusStatistics(ns)
        ELSE CorpusStatistics(SelectSeq(ns, LAMBDA n : n.language = scope))]

\* ---- the Corpus state machine

Str_paren_c == <<"(", "c", ")">>

\* the Names a Corpus is built from, as the loader makes them: one the
\* permutation search reorders, one that is only a parenthesized span, one
\* of blank text, one without english_text, one whose english_text is its
\* wikidata_id
CorpusNames ==
    {TransliteratedName(Str_a_b, TRUE, "fi", <<"Q", "1">>, Str_b_a,
                        NoAlignment, None),
     TransliteratedName(Str_paren_c, TRUE, "fi", <<"Q", "2">>, <<"c">>,
                        NoAlignment, None),
     TransliteratedName(<<" ">>, TRUE, "sv", <<"Q", "3">>, Str_a,
                        NoAlignment, None),
     TransliteratedName(<<Cyr>>, TRUE, "ru", <<"Q", "4">>, None,
                        NoAlignment, None),
     TransliteratedName(Str_a, TRUE, "sv", <<"Q", "5">>, <<"Q", "5">>,
                        NoAlignment, None)}

\* the attributes of Corpus that select the stages; the attributes a
\* configuration never reads are left at their defaults
CorpusConfigs ==
    {cfg \in [permuter_class : {"edit_distance", "remove_parenthesis"},
              permuter_inplace : BOOLEAN,
              debug_mode : BOOLEAN,
              find_best_token_permutation : BOOLEAN,
              filter_out_blank : BOOLEAN,
              require_english : BOOLEAN,
              analyze_unicode : BOOLEAN,
              align_with_english : BOOLEAN] :
        /\ ~cfg.find_best_token_permutation
               => /\ cfg.permuter_class = "edit_distance"
                  /\ ~cfg.permuter_inplace
                  /\ ~cfg.debug_mode
        /\ ~cfg.filter_out_blank => cfg.require_english}

\* Corpus(names=..., ...) when __attrs_post_init__ reaches line 941
InitCorpus ==
    /\ c_cfg \in CorpusConfigs
    /\ c_input \in SeqsUpTo(CorpusNames, MaxBatch)
    /\ c_names = c_input
    /\ c_pc = "new"
    /\ c_log = <<>>
    /\ c_prototype = <<>>
    /\ c_most_common_unicode_block = ""
    /\ c_stats = <<>>
    /\ c_oracle = [uroman |-> "unused", fast_align |-> "unused"]
    /\ AlignIdle
    /\ ProcIdle
    /\ NamesIdle
    /\ OracleIdle
    /\ ScriptIdle
    /\ TagIdle

\* the statement of __attrs_post_init__ that runs next
StageDue(stage) ==
    /\ c_pc = "new"
    /\ Len(c_log) < Len(StageOrder)
    /\ StageOrder[Len(c_log) + 1] = stage

\* where __attrs_post_init__ stands after a stage that ended with pc
AfterStage(pc) ==
    IF pc # "ok" THEN pc
    ELSE IF Len(c_log) + 1 = Len(StageOrder) THEN "done"
    ELSE "new"

LogEntry(stage, ran, seen, out) ==
    [stage |-> stage, ran |-> ran, seen |-> seen, out |-> out]

\* lines 941-944
Corpus_apply_permuter(outcome) ==
    LET ran  == c_cfg.find_best_token_permutation
        used == ran /\ c_cfg.permuter_class = "edit_distance"
        r    == IF ~ran THEN [pc |-> "ok", names |-> c_names]
                ELSE IF used
                THEN Corpus_permuter_edit_distance(c_cfg, c_names, outcome)
                ELSE Corpus_permuter_process(c_cfg, c_names)
    IN  /\ StageDue("normalize")
        /\ c_names' = r.names
        /\ c_log' = Append(c_log, LogEntry("normalize", ran, c_names, r.names))
        /\ c_pc' = AfterStage(r.pc)
        /\ c_oracle' = IF used THEN [c_oracle EXCEPT !.uroman = outcome]
                       ELSE c_oracle
        /\ UNCHANGED <<c_cfg, c_input, c_prototype,
                       c_most_common_unicode_block, c_stats,
                       alignVars, procVars, nameVars, oracleVars,
                   scriptVars, tagVars>>

\* lines 946-949
Corpus_filter ==
    LET ran == c_cfg.filter_out_blank
        out == IF ran THEN filter_names(c_cfg, c_names) ELSE c_names
    IN  /\ StageDue("filter")
        /\ c_names' = out
        /\ c_log' = Append(c_log, LogEntry("filter", ran, c_names, out))
        /\ c_pc' = AfterStage("ok")
        /\ UNCHANGED <<c_cfg, c_input, c_prototype,
                       c_most_common_unicode_block, c_stats, c_oracle,
                       alignVars, procVars, nameVars, oracleVars,
                   scriptVars, tagVars>>

\* lines 951-959; most_common()[0] of an empty histogram raises IndexError
Corpus_compute_prototype ==
    LET ran == c_cfg.analyze_unicode
        h   == unicode_block_histogram(joined_texts(c_names))
    IN  /\ StageDue("prototype")
        /\ c_prototype' = IF ran THEN h ELSE c_prototype
        /\ c_most_common_unicode_block' =
               IF ran /\ Len(h) > 0 THEN most_common_first(h) ELSE ""
        /\ c_log' = Append(c_log, LogEntry("prototype", ran, c_names, c_names))
        /\ c_pc' = AfterStage(IF ran /\ Len(h) = 0 THEN "IndexError" ELSE "ok")
        /\ UNCHANGED <<c_cfg, c_input, c_names, c_stats, c_oracle,
                       alignVars, procVars, nameVars, oracleVars,
                   scriptVars, tagVars>>

\* lines 961-964
Corpus_align(outcome) ==
    LET ran == c_cfg.align_with_english
        r   == Corpus_compute_alignments(c_names, outcome)
        out == IF ran /\ r.pc = "returned" THEN r.names ELSE c_names
    IN  /\ StageDue("align")
        /\ c_names' = out
        /\ c_log' = Append(c_log, LogEntry("align", ran, c_names, out))
        /\ c_pc' = AfterStage(IF ran /\ r.pc # "returned" THEN r.pc ELSE "ok")
        /\ c_oracle' = IF ran /\ r.runs > 0
                       THEN [c_oracle EXCEPT !.fast_align = outcome]
                       ELSE c_oracle
        /\ UNCHANGED <<c_cfg, c_input, c_prototype,
                       c_most_common_unicode_block, c_stats,
                       alignVars, procVars, nameVars, oracleVars,
                   scriptVars, tagVars>>

\* lines 966-967: compute_stats always runs
Corpus_compute_stats ==
    /\ StageDue("statistics")
    /\ c_stats' = IF CorpusStatisticsRaises(c_names) THEN c_stats
                  ELSE compute_stats(c_names)
    /\ c_log' = Append(c_log, LogEntry("statistics", TRUE, c_names, c_names))
    /\ c_pc' = AfterStage(IF CorpusStatisticsRaises(c_names)
                          THEN "ZeroDivisionError" ELSE "ok")
    /\ UNCHANGED <<c_cfg, c_input, c_names, c_prototype,
                   c_most_common_unicode_block, c_oracle,
                   alignVars, procVars, nameVars, oracleVars,
                   scriptVars, tagVars>>

\* the Names test_anomalous_tagging adds: noise samples
NoiseNames ==
    {TransliteratedName(Str_b_a, TRUE, "fi", <<"Q", "0">>, None,
                        NoAlignment, None),
     TransliteratedName(<<" ">>, TRUE, "de", <<"Q", "0">>, None,
                        NoAlignment, None)}

\* statistics that are computed again over the extended list
stats_after_extend_Recomputed(stats, ns) == compute_stats(ns)

\* self.stats after self.names.extend(...): stats["global"].names is the
\* list self.names itself, so it shows the added Names; nothing is computed
stats_after_extend(stats, ns) == [stats EXCEPT !["global"].names = ns]

\* Corpus.add_words, on a constructed Corpus
Corpus_add_words(additional_names) ==
    /\ c_pc = "done"
    /\ Len(c_names) + Len(additional_names) <= MaxBatch + 1
    /\ c_names' = c_names \o additional_names
    /\ c_stats' = stats_after_extend(c_stats, c_names \o additional_names)
    /\ UNCHANGED <<c_cfg, c_input, c_pc, c_log, c_prototype,
                   c_most_common_unicode_block, c_oracle,
                   alignVars, procVars, nameVars, oracleVars,
                   scriptVars, tagVars>>

NextCorpus ==
    \/ \E outcome \in OracleOutcomes : Corpus_apply_permuter(outcome)
    \/ Corpus_filter
    \/ Corpus_compute_prototype
    \/ \E outcome \in OracleOutcomes : Corpus_align(outcome)
    \/ Corpus_compute_stats
    \/ \E additional_names \in SeqsUpTo(NoiseNames, 2) \ {<<>>} :
           Corpus_add_words(additional_names)

SpecCorpus == InitCorpus /\ [][NextCorpus]_vars

CorpusDone == c_pc = "done"

\* the log entry of a stage
EntryOf(stage) ==
    c_log[CHOOSE k \in 1..Len(c_log) : c_log[k].stage = stage]

\* ---- properties of the Corpus

\* C15: a construction during which uroman or fast_align exited with an error
\* and wrote nothing, over a batch of one Name or more, does not complete.
C15_FailedOracleAborts ==
    CorpusDone
    => /\ c_oracle.uroman = "fails" => Len(EntryOf("normalize").seen) = 0
       /\ c_oracle.fast_align = "fails" => Len(EntryOf("align").seen) = 0

\* the order section 4.5 of the specification gives
PipelineOrder == <<"normalize", "filter", "prototype", "align", "statistics">>

\* C16: the stages run in the order normalize, filter, prototype, align,
\* statistics, each on the Names the stage before it left: the prototype is
\* the histogram of the texts left by normalization and filtering, the aligner
\* gets those Names, and the statistics are those of the Names left by the
\* aligner.
C16_StagesInOrder ==
    /\ \A k \in 1..Len(c_log) :
           /\ c_log[k].stage = PipelineOrder[k]
           /\ c_log[k].seen = IF k = 1 THEN c_input ELSE c_log[k - 1].out
    /\ (Len(c_log) >= 3 /\ c_cfg.analyze_unicode)
           => c_prototype = unicode_block_histogram(joined_texts(c_log[2].out))
    /\ (Len(c_log) >= 4 /\ c_cfg.align_with_english /\ c_pc \in {"new", "done"})
           => /\ c_log[4].seen = c_log[2].out
              /\ \A k \in 1..Len(c_log[4].out) :
                     c_log[4].out[k].alignment # NoAlignment
    /\ CorpusDone
           => /\ c_stats["global"].total_names = Len(c_log[4].out)
              /\ c_stats["global"].total_cross_alignments
                     = total_cross(c_log[4].out)

C16_Witness ==
    /\ CorpusDone
    /\ c_cfg.find_best_token_permutation
    /\ c_cfg.filter_out_blank
    /\ c_cfg.analyze_unicode
    /\ c_cfg.align_with_english
    /\ c_log[1].out # c_log[1].seen
    /\ Len(c_log[2].out) < Len(c_log[2].seen)
    /\ c_stats["global"].total_cross_alignments > 0

\* C17: after a construction with filter_out_blank the retained Names are
\* exactly the Names of non-blank text that, when a reference is required,
\* have an english_text that is neither missing nor the placeholder, in
\* their order.
C17_FilterRetainsExactlyValid ==
    (CorpusDone /\ c_cfg.filter_out_blank)
    => LET e == EntryOf("filter")
           valid(n) ==
               /\ Len(Strip(n.text)) > 0
               /\ c_cfg.require_english
                      => /\ n.english_text \notin {None, <<>>}
                         /\ n.english_text # n.wikidata_id
       IN  e.out = SelectSeq(e.seen, valid)

\* the Names a scope's statistics were computed over
ScopeNames(scope) ==
    IF scope = "global" THEN EntryOf("statistics").seen
    ELSE SelectSeq(EntryOf("statistics").seen, LAMBDA n : n.language = scope)

\* C18: in the statistics of every scope of a constructed Corpus,
\* total_permuted + total_surviving = total_names, total_permuted being the
\* number of Names with is_unchanged false and total_surviving the number
\* with is_unchanged true.
C18_PermutedPlusSurviving ==
    CorpusDone
    => \A scope \in DOMAIN c_stats :
           LET st == c_stats[scope]
               ns == ScopeNames(scope)
           IN  /\ st.total_permuted + st.total_surviving = st.total_names
               /\ st.total_names = Len(ns)
               /\ st.total_permuted =
                      Cardinality({k \in 1..Len(ns) : ns[k].is_unchanged = FALSE})
               /\ st.total_surviving =
                      Cardinality({k \in 1..Len(ns) : ns[k].is_unchanged = TRUE})

C18_Witness ==
    /\ CorpusDone
    /\ c_stats["global"].total_permuted = 1
    /\ c_stats["global"].total_surviving = 1
    /\ c_stats["global"].total_names = 2

\* the exceptions of a construction that come from an oracle or from a Name
\* without english_text
OracleErrors == {"ValueError", "AssertionError", "TypeError", "AttributeError"}

\* C19: a construction that does not fail in an oracle completes, for every
\* input list, with statistics for "global" and for exactly the languages of
\* its retained Names.
C19_StatsForEveryInput ==
    (c_pc \notin {"idle", "new"} /\ c_pc \notin OracleErrors)
    => /\ CorpusDone
       /\ DOMAIN c_stats
              = {"global"} \cup languages_of(EntryOf("statistics").seen)

\* the computed numbers of a CorpusStatistics
StatNumbers(st) ==
    <<st.total_names, st.total_cross_alignments, st.mean_cross_alignments,
      st.total_permuted, st.total_surviving>>

\* C20: add_words appends the given Names to the end of Corpus.names and
\* leaves the prototype, the most common block, the statistics of every
\* language, the numbers of the global statistics and the existing Names as
\* they were.
C20_AddWordsAppendsOnly ==
    [][(c_pc = "done" /\ c_names' # c_names)
       => /\ Len(c_names') > Len(c_names)
          /\ Slice(c_names', 1, Len(c_names)) = c_names
          /\ c_prototype' = c_prototype
          /\ c_most_common_unicode_block' = c_most_common_unicode_block
          /\ DOMAIN c_stats' = DOMAIN c_stats
          /\ \A scope \in DOMAIN c_stats \ {"global"} :
                 c_stats'[scope] = c_stats[scope]
          /\ StatNumbers(c_stats'["global"]) = StatNumbers(c_stats["global"])
          /\ c_log' = c_log
          /\ c_pc' = "done"]_vars

C20_Witness ==
    /\ CorpusDone
    /\ c_cfg.analyze_unicode
    /\ Len(c_names) = Len(EntryOf("statistics").seen) + 2
    /\ c_names[Len(c_names)].language \notin DOMAIN c_stats
    /\ c_stats["global"].total_names = Len(c_names) - 2

\* ------------------------------------------------------- UnicodeAnalyzer

\* largest number of characters of a word handed to the analyzer
MaxWordLen == 3

\* UnicodeAnalyzer(strip, ignore_punctuation, ignore_numbers)
UnicodeAnalyzer(strip, ignore_punctuation, ignore_numbers) ==
    [strip |-> strip, ignore_punctuation |-> ignore_punctuation,
     ignore_numbers |-> ignore_numbers]

maybe_strip(an, word) == IF an.strip THEN Strip(word) ELSE word

punctuation_cond(an, c) ==
    IF an.ignore_punctuation THEN ~is_punctuation(c) ELSE TRUE

digit_cond(an, c) == IF an.ignore_numbers THEN ~is_number(c) ELSE TRUE

\* icu.Script.getScript(c).getName(); never an empty name
get_icu_script(c) ==
    CASE c = Cyr -> "Cyrillic"
      [] c = Han -> "Han"
      [] c = Hira -> "Hiragana"
      [] c = Kata -> "Katakana"
      [] c = Unassigned -> "Unknown"
      [] c = " " \/ is_punctuation(c) \/ is_number(c) -> "Common"
      [] OTHER -> "Latin"

\* UnicodeAnalyzer.unicode_blocks(word)
UnicodeAnalyzer_unicode_blocks(an, word) ==
    LET counted == SelectSeq(maybe_strip(an, word),
                       LAMBDA c : /\ blocks_of(c) # "None"
                                  /\ punctuation_cond(an, c)
                                  /\ digit_cond(an, c))
    IN  Counter([k \in 1..Len(counted) |-> blocks_of(counted[k])], <<>>)

\* UnicodeAnalyzer.icu_scripts(word)
UnicodeAnalyzer_icu_scripts(an, word) ==
    LET counted == SelectSeq(maybe_strip(an, word),
                       LAMBDA c : /\ get_icu_script(c) # ""
                                  /\ punctuation_cond(an, c)
                                  /\ digit_cond(an, c))
    IN  Counter([k \in 1..Len(counted) |-> get_icu_script(counted[k])], <<>>)

\* Counter.most_common(1): heapq.nlargest(1, items) is max(items), the first
\* of the largest in insertion order; the empty list for an empty Counter
most_common_1(h) ==
    IF Len(h) = 0 THEN <<>>
    ELSE LET i == CHOOSE i \in 1..Len(h) :
                      /\ \A m \in 1..Len(h) : h[m].count <= h[i].count
                      /\ \A m \in 1..(i - 1) : h[m].count < h[i].count
         IN  <<h[i]>>

\* the same lookup without the except clause
most_common_label_Unhandled(h) ==
    IF Len(most_common_1(h)) = 0
    THEN [pc |-> "IndexError", out |-> <<>>]
    ELSE [pc |-> "returned", out |-> most_common_1(h)[1].block]

\* try: return h.most_common(1)[0][0] / except IndexError: return ""
most_common_label(h) ==
    IF Len(most_common_1(h)) = 0
    THEN [pc |-> "returned", out |-> ""]
    ELSE [pc |-> "returned", out |-> most_common_1(h)[1].block]

\* UnicodeAnalyzer.most_common_unicode_block(word)
UnicodeAnalyzer_most_common_unicode_block(an, word) ==
    most_common_label(UnicodeAnalyzer_unicode_blocks(an, word))

\* UnicodeAnalyzer.most_common_icu_script(word)
UnicodeAnalyzer_most_common_icu_script(an, word) ==
    most_common_label(UnicodeAnalyzer_icu_scripts(an, word))

ScriptAlphabet == {"a", " ", ",", "1", Cyr, Han, Unassigned}

ScriptWords == SeqsUpTo(ScriptAlphabet, MaxWordLen)

UnicodeAnalyzers ==
    {UnicodeAnalyzer(s, p, n) : s \in BOOLEAN, p \in BOOLEAN, n \in BOOLEAN}

InitScript ==
    /\ u_analyzer \in UnicodeAnalyzers
    /\ u_word \in ScriptWords
    /\ u_icu_mode = FALSE
    /\ u_out = <<>>
    /\ u_pc = "new"
    /\ AlignIdle
    /\ ProcIdle
    /\ NamesIdle
    /\ OracleIdle
    /\ CorpusIdle
    /\ TagIdle

most_common_unicode_block_call ==
    /\ u_pc = "new"
    /\ LET r == UnicodeAnalyzer_most_common_unicode_block(u_analyzer, u_word)
       IN  u_pc' = r.pc /\ u_out' = r.out
    /\ u_icu_mode' = FALSE
    /\ UNCHANGED <<u_analyzer, u_word, alignVars, procVars, nameVars,
                   oracleVars, corpusVars, tagVars>>

most_common_icu_script_call ==
    /\ u_pc = "new"
    /\ LET r == UnicodeAnalyzer_most_common_icu_script(u_analyzer, u_word)
       IN  u_pc' = r.pc /\ u_out' = r.out
    /\ u_icu_mode' = TRUE
    /\ UNCHANGED <<u_analyzer, u_word, alignVars, procVars, nameVars,
                   oracleVars, corpusVars, tagVars>>

NextScript ==
    \/ most_common_unicode_block_call
    \/ most_common_icu_script_call

SpecScript == InitScript /\ [][NextScript]_vars

\* ---- the label the claim describes, computed from the characters

\* the characters of the word that are counted: those the granularity has
\* a label for (ICU labels every code point, an unassigned one "Unknown")
Classifiable(an, word, icu_mode) ==
    LET w == IF an.strip THEN Strip(word) ELSE word
    IN  SelectSeq(w, LAMBDA c :
            /\ (icu_mode \/ c # Unassigned)
            /\ ~(an.ignore_punctuation /\ is_punctuation(c))
            /\ ~(an.ignore_numbers /\ is_number(c)))

\* the labels of the counted characters, in text order
Labels(an, word, icu_mode) ==
    LET cs == Classifiable(an, word, icu_mode)
    IN  [k \in 1..Len(cs) |->
            IF icu_mode THEN get_icu_script(cs[k]) ELSE blocks_of(cs[k])]

Occurrences(ls, l) == Cardinality({k \in 1..Len(ls) : ls[k] = l})

\* the label of the highest count, the one met first in the text among ties
HighestCountFirstMet(ls) ==
    LET k == CHOOSE i \in 1..Len(ls) :
                 /\ \A m \in 1..Len(ls) :
                        Occurrences(ls, ls[m]) <= Occurrences(ls, ls[i])
                 /\ \A m \in 1..(i - 1) :
                        Occurrences(ls, ls[m]) < Occurrences(ls, ls[i])
    IN  ls[k]

\* C22: mostCommonScript never raises: for every string it returns the label
\* with the highest histogram count, the first-encountered among ties, and
\* the empty string when no classifiable character is left after filtering.
C22_MostCommonNeverRaises ==
    /\ u_pc \in {"idle", "new", "returned"}
    /\ u_pc = "returned"
       => LET ls == Labels(u_analyzer, u_word, u_icu_mode)
          IN  u_out = IF Len(ls) = 0 THEN "" ELSE HighestCountFirstMet(ls)

\* the empty string for a text of one ignored character, and the label met
\* first for a tie
C22_Witness ==
    /\ u_pc = "returned"
    /\ \/ u_word = <<",">> /\ u_analyzer.ignore_punctuation /\ u_out = ""
       \/ u_word = <<Cyr, "a">> /\ ~u_icu_mode /\ u_out = "CYRILLIC"

\* ------------------------------------------------------- anomaly taggers

\* largest number of taggers an AggregatedTagger is built from
MaxTaggers == 2
\* largest number of Names of a Corpus holding more than one Name
MaxTagged == 2

\* TransliteratedName(...) with the fields the taggers and split_names read
\* and write; anomalous is an Optional[bool], written "None", "True", "False"
TransliteratedName_anomaly(text, is_unchanged, language, wikidata_id, anomalous, noise_sample, orig) ==
    [text |-> text, is_unchanged |-> is_unchanged, language |-> language,
     wikidata_id |-> wikidata_id, anomalous |-> anomalous,
     noise_sample |-> noise_sample, priv_original_text |-> orig]

\* bool as the attribute anomalous holds it
Bool(b) == IF b THEN "True" ELSE "False"

\* every Name here is built with the analyzer UnicodeAnalyzer()
name_unicode_analyzer == UnicodeAnalyzer(FALSE, FALSE, FALSE)

\* TransliteratedName.most_common_unicode_block
name_most_common_unicode_block(name) ==
    UnicodeAnalyzer_most_common_unicode_block(name_unicode_analyzer,
                                              name.text).out

\* the keys of TransliteratedName.unicode_block_histogram
name_histogram_blocks(name) ==
    LET h == UnicodeAnalyzer_unicode_blocks(name_unicode_analyzer, name.text)
    IN  {h[k].block : k \in 1..Len(h)}

\* s.startswith(prefix)
startswith(s, prefix) ==
    Len(s) >= Len(prefix) /\ SubSeq(s, 1, Len(prefix)) = prefix

\* re.compile(r"^(ja|zh-*|lzh|wuu)").match(language): a match at the start
\* of the string, whatever follows it
re_chinese_japanese_match(language) ==
    \/ startswith(language, <<"j", "a">>)
    \/ startswith(language, <<"z", "h">>)
    \/ startswith(language, <<"l", "z", "h">>)
    \/ startswith(language, <<"w", "u", "u">>)

Lang_ja == <<"j", "a">>

\* a tagger of one of the four block-based classes
Tagger(kind, block) ==
    [kind |-> kind, block |-> block, taggers |-> <<>>,
     aggregation_method |-> ""]

\* AggregatedTagger(taggers=taggers, aggregation_method=method)
AggregatedTagger(taggers, method) ==
    [kind |-> "AggregatedTagger", block |-> "", taggers |-> taggers,
     aggregation_method |-> method]

NoTagger == Tagger("none", "")

IncorrectBlockTagger_classify(tagger, name) ==
    Bool(name_most_common_unicode_block(name) # tagger.block)

MissingBlockTagger_classify(tagger, name) ==
    Bool(tagger.block \notin name_histogram_blocks(name))

HiraganaKatakanaTagger_classify(name) ==
    LET hist == name_histogram_blocks(name)
        contains_kana == "HIRAGANA" \in hist \/ "KATAKANA" \in hist
    IN  IF ~re_chinese_japanese_match(name.language) THEN "None"
        ELSE IF name.language # Lang_ja THEN Bool(contains_kana)
        ELSE Bool(~contains_kana)

\* block.startswith("CJK"), for the block names blocks_of gives
startswith_CJK(block) == block = "CJK_UNIFIED_IDEOGRAPHS"

CJKTagger_classify(name) ==
    LET hist == name_histogram_blocks(name)
        contains_cjk == \E block \in hist : startswith_CJK(block)
    IN  IF ~re_chinese_japanese_match(name.language) THEN "None"
        ELSE Bool(contains_cjk)

\* self.classify(n)
classify(tagger, name) ==
    CASE tagger.kind = "IncorrectBlockTagger" ->
             IncorrectBlockTagger_classify(tagger, name)
      [] tagger.kind = "MissingBlockTagger" ->
             MissingBlockTagger_classify(tagger, name)
      [] tagger.kind = "HiraganaKatakanaTagger" ->
             HiraganaKatakanaTagger_classify(name)
      [] tagger.kind = "CJKTagger" -> CJKTagger_classify(name)

\* AnomalousTagger.__call__(names): a new Name per Name; noise_sample and
\* original_text are not passed and take their defaults
AnomalousTagger_call(tagger, ns) ==
    [k \in 1..Len(ns) |->
        TransliteratedName_anomaly(ns[k].text, ns[k].is_unchanged,
            ns[k].language, ns[k].wikidata_id, classify(tagger, ns[k]),
            FALSE, None)]

\* AnomalousTagger.get_preds(names)
get_preds(tagger, ns) ==
    LET tagged == AnomalousTagger_call(tagger, ns)
    IN  [k \in 1..Len(tagged) |->
            IF tagged[k].anomalous = "None" THEN 0
            ELSE IF tagged[k].anomalous = "True" THEN 1
            ELSE -1]

RECURSIVE SumInts(_)
SumInts(p) == IF Len(p) = 0 THEN 0 ELSE p[1] + SumInts(Tail(p))

\* the names the dictionary of __attrs_post_init__ has a function for; .get
\* gives None for any other name
vote_aggregation_methods == {"all", "any", "majority_vote"}

\* a majority rule that also marks a Name anomalous on a tie
aggregator_function_TieAnomalous(method, p) ==
    CASE method = "all" -> \A i \in 1..Len(p) : p[i] # 0
      [] method = "any" -> \E i \in 1..Len(p) : p[i] # 0
      [] method = "majority_vote" -> SumInts(p) >= 0

\* self.aggregator_function(p) for a tuple p of votes: all and any take the
\* truth value of each vote, so that only 0 is false
aggregator_function(method, p) ==
    CASE method = "all" -> \A i \in 1..Len(p) : p[i] # 0
      [] method = "any" -> \E i \in 1..Len(p) : p[i] # 0
      [] method = "majority_vote" -> SumInts(p) > 0

\* list(zip(*preds_per_tagger)): one tuple of votes per Name, none at all
\* when there is no tagger
zip_preds(preds_per_tagger, n) ==
    IF Len(preds_per_tagger) = 0 THEN <<>>
    ELSE [k \in 1..n |->
             [i \in 1..Len(preds_per_tagger) |-> preds_per_tagger[i][k]]]

\* AggregatedTagger.__call__(names); calling the None that .get returned
\* raises TypeError at the first tuple of votes
AggregatedTagger_call(tagger, ns) ==
    LET preds_per_tagger ==
            [i \in 1..Len(tagger.taggers) |-> get_preds(tagger.taggers[i], ns)]
        preds == zip_preds(preds_per_tagger, Len(ns))
    IN  IF Len(preds) > 0
            /\ tagger.aggregation_method \notin vote_aggregation_methods
        THEN [pc |-> "TypeError", preds |-> preds, out |-> <<>>]
        ELSE [pc |-> "tagged", preds |-> preds,
              out |-> [k \in 1..Min2(Len(ns), Len(preds)) |->
                  TransliteratedName_anomaly(ns[k].text, ns[k].is_unchanged,
                      ns[k].language, ns[k].wikidata_id,
                      Bool(aggregator_function(tagger.aggregation_method,
                                               preds[k])),
                      FALSE, None)]]

\* a split that keeps the noise samples whatever the flag says
split_names_KeepNoise(ns, with_noise_samples) ==
    [with_noise_samples |-> with_noise_samples,
     anomalous |-> SelectSeq(ns, LAMBDA n : n.anomalous = "True"),
     non_anomalous |-> SelectSeq(ns, LAMBDA n : n.anomalous # "True")]

\* Corpus.split_names(with_noise_samples)
split_names(ns, with_noise_samples) ==
    LET kept == SelectSeq(ns, LAMBDA n :
                    ~(~with_noise_samples /\ n.noise_sample))
    IN  [with_noise_samples |-> with_noise_samples,
         anomalous |-> SelectSeq(kept, LAMBDA n : n.anomalous = "True"),
         non_anomalous |-> SelectSeq(kept, LAMBDA n : n.anomalous # "True")]

\* ---- the Names and the taggers of a run

TagLanguages ==
    {Lang_ja, <<"z", "h">>, <<"z", "h", "-", "t", "w">>, <<"l", "z", "h">>,
     <<"w", "u", "u">>, <<"j", "a", "m">>, <<"z", "h", "a">>, <<"f", "i">>}

TagTexts == {<<Han>>, <<Hira>>, <<"a">>, <<Han, "a">>}

\* Names as the loaders build them
LoadedNames ==
    {TransliteratedName_anomaly(t, TRUE, l, "Q1", "None", FALSE, None) :
        t \in TagTexts, l \in TagLanguages}

\* noise samples as they are added for negative sampling
NoiseSampleNames ==
    {TransliteratedName_anomaly(t, TRUE, l, "Q0", "True", TRUE, None) :
        t \in {<<"a">>, <<Han>>}, l \in {Lang_ja, <<"f", "i">>}}

\* Names a normalizer rewrote and a tagger labelled before
NormalizedNames ==
    {TransliteratedName_anomaly(<<Han>>, FALSE, l, "Q2", "False", FALSE,
                                <<Han, ",">>) :
        l \in {Lang_ja, <<"f", "i">>}}

\* the Names a Corpus of more than one Name is made of
PairNames ==
    {TransliteratedName_anomaly(<<Han>>, TRUE, Lang_ja, "Q1", "None", FALSE,
                                None),
     TransliteratedName_anomaly(<<"a">>, TRUE, Lang_ja, "Q0", "True", TRUE,
                                None),
     TransliteratedName_anomaly(<<Hira>>, TRUE, Lang_ja, "Q3", "True", FALSE,
                                None),
     TransliteratedName_anomaly(<<Han>>, FALSE, Lang_ja, "Q2", "False", FALSE,
                                <<Han, ",">>)}

TagCorpora ==
    {<<n>> : n \in LoadedNames \cup NoiseSampleNames \cup NormalizedNames}
        \cup SeqsUpTo(PairNames, MaxTagged)

SingleTaggers ==
    {Tagger(k, b) : k \in {"IncorrectBlockTagger", "MissingBlockTagger"},
                    b \in {"CJK_UNIFIED_IDEOGRAPHS", "BASIC_LATIN"}}
        \cup {Tagger("HiraganaKatakanaTagger", ""), Tagger("CJKTagger", "")}

\* the taggers an AggregatedTagger is built from
MemberTaggers ==
    {Tagger("IncorrectBlockTagger", "CJK_UNIFIED_IDEOGRAPHS"),
     Tagger("HiraganaKatakanaTagger", ""), Tagger("CJKTagger", "")}

\* the three names the class knows and one it does not
AggregationMethods == vote_aggregation_methods \cup {"majority"}

AggregatedTaggers ==
    {AggregatedTagger(ts, m) :
        ts \in SeqsUpTo(MemberTaggers, MaxTaggers), m \in AggregationMethods}

InitTag ==
    /\ t_names \in TagCorpora
    /\ t_pre = <<>>
    /\ t_tagger = NoTagger
    /\ t_preds = <<>>
    /\ t_out = <<>>
    /\ t_split = split_names(<<>>, FALSE)
    /\ t_pc = "loaded"
    /\ AlignIdle
    /\ ProcIdle
    /\ NamesIdle
    /\ OracleIdle
    /\ CorpusIdle
    /\ ScriptIdle

\* tagger(corpus.names) for a tagger of one of the block-based classes
AnomalousTagger_call_run(tagger) ==
    /\ t_pc = "loaded"
    /\ t_tagger' = tagger
    /\ t_out' = AnomalousTagger_call(tagger, t_names)
    /\ t_preds' = <<>>
    /\ t_pc' = "tagged"
    /\ UNCHANGED <<t_names, t_pre, t_split, alignVars, procVars, nameVars,
                   oracleVars, corpusVars, scriptVars>>

\* tagger(corpus.names) for an AggregatedTagger
AggregatedTagger_call_run(tagger) ==
    /\ t_pc = "loaded"
    /\ t_tagger' = tagger
    /\ LET r == AggregatedTagger_call(tagger, t_names)
       IN  t_out' = r.out /\ t_preds' = r.preds /\ t_pc' = r.pc
    /\ UNCHANGED <<t_names, t_pre, t_split, alignVars, procVars, nameVars,
                   oracleVars, corpusVars, scriptVars>>

\* corpus.names = tagged_names, with the list a tagger returned
Corpus_set_names ==
    /\ t_pc = "tagged"
    /\ t_pre' = t_names
    /\ t_names' = t_out
    /\ t_pc' = "replaced"
    /\ UNCHANGED <<t_tagger, t_preds, t_out, t_split, alignVars, procVars,
                   nameVars, oracleVars, corpusVars, scriptVars>>

\* corpus.split_names(with_noise_samples)
Corpus_split_names(with_noise_samples) ==
    /\ t_pc \in {"loaded", "replaced"}
    /\ t_split' = split_names(t_names, with_noise_samples)
    /\ t_pc' = "split"
    /\ UNCHANGED <<t_names, t_pre, t_tagger, t_preds, t_out, alignVars,
                   procVars, nameVars, oracleVars, corpusVars, scriptVars>>

NextTag ==
    \/ \E tagger \in SingleTaggers : AnomalousTagger_call_run(tagger)
    \/ \E tagger \in AggregatedTaggers : AggregatedTagger_call_run(tagger)
    \/ Corpus_set_names
    \/ \E with_noise_samples \in BOOLEAN :
           Corpus_split_names(with_noise_samples)

SpecTag == InitTag /\ [][NextTag]_vars

\* ---- properties of split_names

\* the j-th smallest member of a set of positions
NthOf(S, j) == CHOOSE x \in S : Cardinality({y \in S : y < x}) = j - 1

\* bucket holds the Names of ns at the positions S, in the order of ns
HoldsInOrder(bucket, ns, S) ==
    /\ Len(bucket) = Cardinality(S)
    /\ \A j \in 1..Len(bucket) : bucket[j] = ns[NthOf(S, j)]

\* C21: split_names(with_noise_samples) places every Name of the Corpus in
\* exactly one bucket, in Corpus order (anomalous when its flag is true,
\* non-anomalous when it is false or unknown), except that without
\* with_noise_samples every noise sample is in neither bucket.
C21_SplitBuckets ==
    t_pc = "split"
    => LET In == {k \in 1..Len(t_names) :
                     t_split.with_noise_samples \/ ~t_names[k].noise_sample}
           A == {k \in In : t_names[k].anomalous = "True"}
           N == {k \in In : t_names[k].anomalous \in {"False", "None"}}
       IN  /\ HoldsInOrder(t_split.anomalous, t_names, A)
           /\ HoldsInOrder(t_split.non_anomalous, t_names, N)

\* a Corpus of a noise sample and an unlabelled Name: the first is skipped
C21_Witness ==
    /\ t_pc = "split"
    /\ t_tagger = NoTagger
    /\ ~t_split.with_noise_samples
    /\ Len(t_names) = 2
    /\ t_names[1].noise_sample /\ t_names[1].anomalous = "True"
    /\ t_names[2].anomalous = "None"
    /\ t_split.anomalous = <<>>
    /\ t_split.non_anomalous = <<t_names[2]>>

\* ---- properties of the taggers

\* the codes of the CJK family: Japanese, Chinese and its variants zh-...,
\* Classical Chinese, Wu
IsCJKFamilyCode(language) ==
    \/ language \in {Lang_ja, <<"z", "h">>, <<"l", "z", "h">>,
                     <<"w", "u", "u">>}
    \/ startswith(language, <<"z", "h", "-">>)

HeuristicTaggerCalled ==
    t_pc = "tagged" /\ t_tagger.kind \in {"HiraganaKatakanaTagger", "CJKTagger"}

\* C23: both script-family heuristic taggers abstain for every Name whose
\* language code is not a CJK-family code, also for a code that only begins
\* with the letters of one (a three-letter code starting with "ja" or "zh").
C23_OtherLanguagesAbstain ==
    HeuristicTaggerCalled
    => \A k \in 1..Len(t_names) :
           ~IsCJKFamilyCode(t_names[k].language)
           => t_out[k].anomalous = "None"

\* C24: for a Name in a CJK-family language the CJK tagger answers anomalous
\* exactly when the text has no CJK-classified character, and not anomalous
\* when it has at least one.
C24_AnomalousWithoutCJK ==
    (t_pc = "tagged" /\ t_tagger.kind = "CJKTagger")
    => \A k \in 1..Len(t_names) :
           IsCJKFamilyCode(t_names[k].language)
           => t_out[k].anomalous =
                  Bool(\A i \in 1..Len(t_names[k].text) :
                           t_names[k].text[i] # Han)

AggregatedWith(method) ==
    /\ t_tagger.kind = "AggregatedTagger"
    /\ t_tagger.aggregation_method = method

Votes(p, v) == Cardinality({i \in 1..Len(p) : p[i] = v})

\* C25: with rule all a Name is anomalous exactly when at least one tagger
\* does not abstain and every non-abstaining tagger votes anomalous; a vote
\* of -1 makes it not anomalous, an abstention neither forces nor blocks,
\* and all abstentions give not anomalous.
C25_RuleAll ==
    (AggregatedWith("all") /\ t_pc = "tagged")
    => \A k \in 1..Len(t_out) :
           t_out[k].anomalous =
               Bool(Votes(t_preds[k], 1) > 0 /\ Votes(t_preds[k], -1) = 0)

\* C26: with rule any a Name is anomalous exactly when at least one tagger
\* votes anomalous (+1); votes of -1 and abstentions alone never do.
C26_RuleAny ==
    (AggregatedWith("any") /\ t_pc = "tagged")
    => \A k \in 1..Len(t_out) :
           t_out[k].anomalous = Bool(Votes(t_preds[k], 1) > 0)

\* the majority decision: more votes of +1 than of -1 among all the votes
MajorityDecides ==
    /\ t_pc # "TypeError"
    /\ t_pc = "tagged"
       => \A k \in 1..Len(t_out) :
              t_out[k].anomalous =
                  Bool(Votes(t_preds[k], 1) > Votes(t_preds[k], -1))

\* C27 as stated: an aggregator configured with the rule name majority works
\* and marks a Name anomalous exactly when the mean of its votes is above 0.
C27_MajorityByName == AggregatedWith("majority") => MajorityDecides

\* C27, amended: the rule is selected by the name majority_vote and marks a
\* Name anomalous exactly when the mean of the votes, abstentions counted as
\* 0, is above 0; the name majority selects no rule, and the call raises
\* TypeError as soon as there is a tuple of votes to aggregate.
C27_MajorityVote ==
    /\ AggregatedWith("majority_vote") => MajorityDecides
    /\ AggregatedWith("majority")
       => (t_pc = "TypeError" <=> Len(t_preds) > 0)

C27_Witness ==
    /\ AggregatedWith("majority_vote")
    /\ t_pc = "tagged"
    /\ Len(t_out) = 1
    /\ Votes(t_preds[1], 1) = 1 /\ Votes(t_preds[1], -1) = 1
    /\ t_out[1].anomalous = "False"

\* C28: the Name a single tagger or the AggregatedTagger produces has the
\* text, original_text and is_unchanged of the input Name, also when the
\* input was normalized before so that original_text differs from text.
C28_RetaggingKeepsText ==
    t_pc = "tagged"
    => \A k \in 1..Len(t_out) :
           /\ t_out[k].text = t_names[k].text
           /\ t_out[k].is_unchanged = t_names[k].is_unchanged
           /\ original_text(t_out[k]) = original_text(t_names[k])

\* C30: re-tagging keeps noise_sample, so that after the Names of a Corpus
\* are replaced by the output of a tagger, split_names(False) still leaves
\* out every Name that was a noise sample before.
C30_NoiseSamplesStayExcluded ==
    (t_pc = "split" /\ t_tagger # NoTagger /\ ~t_split.with_noise_samples
        /\ Len(t_names) = Len(t_pre))
    => /\ \A k \in 1..Len(t_names) :
              t_names[k].noise_sample = t_pre[k].noise_sample
       /\ Len(t_split.anomalous) + Len(t_split.non_anomalous)
              = Cardinality({k \in 1..Len(t_pre) : ~t_pre[k].noise_sample})

====
